---------------------------- MODULE Spec2Model ----------------------------
(***************************************************************************)
(* A model of fanqie-downloader-rs:                                        *)
(*   ApiClient::request (src/src/api.rs), the node registry AppConfig      *)
(*   (src/src/config.rs) behind the process-wide tokio RwLock CONFIG, the  *)
(*   request gate (ApiClient.semaphore) and the current-node cache;        *)
(*   the job gate of BatchDownloader::run (src/src/batch.rs);              *)
(*   Downloader::download_all_chapters (src/src/downloader.rs).            *)
(*                                                                         *)
(* All concurrency of the program is cooperative (join_all inside one      *)
(* task, no spawn): a call runs atomically from one .await to the next.    *)
(* Every .await on a tokio resource is a point where the call may be       *)
(* suspended, so each one is a separate value of pc.                       *)
(***************************************************************************)
EXTENDS Integers, Sequences, FiniteSets, TLC

(* ----------------------------- bounds --------------------------------- *)
\* number of tasks that call request() concurrently
NumCallers == 2
\* largest endpoint list (api_sources) a run is started with
MaxNodes == 2
\* largest request-gate size (params.max_workers) a run is started with
MaxWorkers == 2
\* largest job-gate size (BatchOptions.max_concurrent) a batch is started with
MaxConcurrent == 2
\* longest chapter list handed to download_all_chapters
MaxChapters == 5
\* largest number of books given to the batch command
MaxJobs == 6
\* largest value given to the batch command's --concurrent
MaxRequested == 6
\* the chapter numbers that --start and --end are drawn from: 0..MaxRange
MaxRange == 3
\* token units in one token: the bucket's f64 amounts are multiples of
\* 1/TokenUnit of a token
TokenUnit == 2
\* rates are drawn from 1..MaxRate token units per tick
MaxRate == 2
\* capacities are drawn from 0..MaxCapacity whole tokens
MaxCapacity == 2
\* the clock stops at MaxTime ticks
MaxTime == 3
\* at most MaxCalls calls are made on the bucket
MaxCalls == 3
Callers == 1..NumCallers
NoCaller == 0

\* base URLs of the configured endpoints, in configuration order
UrlPool == <<"u0", "u1", "u2", "u3", "u4", "u5">>
NoUrl == ""

\* book ids given to the batch command, in the order given
BookPool == <<"b1", "b2", "b3", "b4", "b5", "b6", "b7", "b8", "b9">>

VARIABLES
    api_sources,         \* AppConfig.api_sources: the ordered base URLs
    current_node_index,  \* AppConfig.current_node_index (0-based)
    max_workers,         \* AppConfig.params.max_workers
    config_lock,         \* CONFIG: the tokio RwLock around AppConfig
    semaphore,           \* ApiClient.semaphore: the request gate
    current_node,        \* ApiClient.current_node: the display cache
    pc,                  \* per caller: where its request() call stands
    nodes,               \* per caller: local `nodes` (the snapshot)
    index,               \* per caller: loop variable `index`
    last_error,          \* per caller: local `last_error`
    data,                \* per caller: local `data` (the decoded value)
    hist,                \* per caller: history of the call in progress
    event,               \* what the last step returned to a caller, if anything
    max_concurrent,      \* BatchOptions.max_concurrent
    job_semaphore,       \* the job gate of BatchDownloader::run
    job,                 \* per caller: where the batch job it runs stands
    chapters,            \* download_all_chapters: the argument `chapters`
    progress_tx,         \* download_all_chapters: the argument `progress_tx`
    fpc,                 \* download_all_chapters: where the call stands
    chunks,              \* download_all_chapters: local `chunks`
    chunk_index,         \* download_all_chapters: loop variable `chunk_index`
    fetch,               \* per position of `chapters`: the state of its fetch
    completed,           \* positions of the current chunk, as their fetches resolved
    chunk_results,       \* download_all_chapters: local `chunk_results`
    chunk_pos,           \* download_all_chapters: loop variable `i`
    results,             \* download_all_chapters: local `results`
    progress,            \* what the receiver of progress_tx has been sent
    launched,            \* the sizes of the chunks launched so far
    concurrent,          \* cmd_batch: the argument `concurrent`
    book_ids,            \* BatchOptions.book_ids
    bpc,                 \* where the batch command stands
    job_result,          \* per job: the BatchResult its block ended with
    batch_results,       \* BatchDownloader::run: local `results`
    overtook,            \* some job ended while a job submitted before it had not
    request_failed,      \* some chapter's request() has returned an error
    options,             \* Downloader.options: start_chapter and end_chapter
    bkpc,                \* download_book: where the call stands
    listing,             \* download_book: local `chapters`
    exported,            \* how often download_book has called an exporter
    exhausted,           \* the endpoint whose request() returned an error
    book_ret,            \* what download_book returned
    rate,                \* TokenBucket.rate, in token units per tick
    capacity,            \* TokenBucket.capacity, in token units
    tokens,              \* TokenBucket.tokens: the Mutex and the value it guards
    last_update,         \* TokenBucket.last_update: the Mutex and the Instant
    now,                 \* the clock that Instant::now() reads, in ticks
    tpc,                 \* per caller of the bucket: where its call stands
    call,                \* per caller: "acquire" or "try_acquire"
    local,               \* per caller: the locals `now` and `elapsed`
    sleep,               \* per caller: when its sleep began and for how long
    sleeps,              \* per caller: how often its call has slept
    calls,               \* calls made on the bucket
    granted,             \* calls that consumed a token
    burst                \* so far every call is an acquire() first checked at time 0

\* the request layer and the registry
reqVars == <<api_sources, current_node_index, config_lock, semaphore,
             current_node, pc, nodes, index, last_error, data, hist>>
\* the batch jobs
jobVars == <<max_concurrent, job_semaphore, job>>
\* one call of download_all_chapters
fetchVars == <<chapters, progress_tx, fpc, chunks, chunk_index, fetch, completed,
               chunk_results, chunk_pos, results, progress, launched,
               request_failed>>

\* the batch command
batchVars == <<concurrent, book_ids, bpc, job_result, batch_results, overtook>>

\* one call of download_book
bookVars == <<options, bkpc, listing, exported, exhausted, book_ret>>

\* one TokenBucket and the calls made on it
bucketVars == <<rate, capacity, tokens, last_update, now, tpc, call, local, sleep, sleeps,
                calls, granted, burst>>

vars == <<reqVars, max_workers, event, jobVars, fetchVars, batchVars, bookVars,
          bucketVars>>

(* ------------------------- tokio::sync::Semaphore --------------------- *)
\* Semaphore::new(n): n permits, an empty FIFO of waiting tasks
SemNew(n) == [permits |-> n, waiters |-> <<>>]

\* acquire() completes at once exactly when a permit is available; permits
\* are only ever left over when nobody waits (a released permit goes to the
\* head waiter first)
\* a gate that lets one caller too many through
SemAvailableOffByOne(s) == s.permits >= 0

SemAvailable(s) == s.permits > 0

\* acquire(): take a permit, or join the queue
SemAcquire(s, p) ==
    IF SemAvailable(s)
    THEN [s EXCEPT !.permits = @ - 1]
    ELSE [s EXCEPT !.waiters = Append(@, p)]

\* dropping a permit: the head waiter gets it, else it returns to the pool
SemRelease(s) ==
    IF s.waiters = <<>>
    THEN [s EXCEPT !.permits = @ + 1]
    ELSE [s EXCEPT !.waiters = Tail(@)]

\* the task a release hands its permit to
SemWoken(s) == IF s.waiters = <<>> THEN {} ELSE {Head(s.waiters)}

(* --------------------------- tokio::sync::RwLock ---------------------- *)
\* the lock is fair (FIFO, write-preferring): a task that cannot be served
\* joins the queue, and nobody overtakes the queue
RwNew == [readers |-> {}, writer |-> NoCaller, waiters |-> <<>>]

\* a read guard that is only granted when no other guard is out
RwCanReadAlone(l) == l.writer = NoCaller /\ l.readers = {} /\ l.waiters = <<>>

RwCanRead(l) == l.writer = NoCaller /\ l.waiters = <<>>

\* a write guard granted while read guards are still out
RwCanWriteOverReaders(l) == l.writer = NoCaller /\ l.waiters = <<>>

RwCanWrite(l) == l.writer = NoCaller /\ l.readers = {} /\ l.waiters = <<>>

\* serve the queue from its head: consecutive readers together, a writer
\* alone and only once every reader has left
RECURSIVE RwAdmit(_)
RwAdmit(l) ==
    IF l.waiters = <<>> \/ l.writer # NoCaller
    THEN l
    ELSE LET h == Head(l.waiters) IN
         IF h.mode = "r"
         THEN RwAdmit([l EXCEPT !.readers = @ \cup {h.who}, !.waiters = Tail(@)])
         ELSE IF l.readers = {}
              THEN [l EXCEPT !.writer = h.who, !.waiters = Tail(@)]
              ELSE l

RwEnqueue(l, p, m) == [l EXCEPT !.waiters = Append(@, [who |-> p, mode |-> m])]

\* dropping a read guard
RwReadUnlock(l, p) == RwAdmit([l EXCEPT !.readers = @ \ {p}])

\* dropping the write guard
RwWriteUnlock(l) == RwAdmit([l EXCEPT !.writer = NoCaller])

\* the tasks that obtained the lock between l0 and l1
RwNewReaders(l0, l1) == l1.readers \ l0.readers
RwNewWriter(l0, l1) == {l1.writer} \ {l0.writer, NoCaller}

(* ------------------------------ AppConfig ----------------------------- *)
\* the methods return the new current_node_index and their boolean result
set_node(len, cur, i) ==
    IF i < len THEN [index |-> i, ok |-> TRUE] ELSE [index |-> cur, ok |-> FALSE]

\* a bound check that lets the index step past the last endpoint
switch_to_next_node_past_end(len, cur) ==
    IF cur + 1 <= len THEN [index |-> cur + 1, ok |-> TRUE]
    ELSE [index |-> cur, ok |-> FALSE]

switch_to_next_node(len, cur) ==
    IF cur + 1 < len THEN [index |-> cur + 1, ok |-> TRUE]
    ELSE [index |-> cur, ok |-> FALSE]

reset_node_index(len, cur) == [index |-> 0, ok |-> TRUE]

\* a cache that starts out empty
get_current_node_unset(srcs, cur) == NoUrl

\* get_current_node(): the preferred endpoint's base URL, if there is one
get_current_node(srcs, cur) ==
    IF cur + 1 \in DOMAIN srcs THEN srcs[cur + 1] ELSE NoUrl

(* ------------------------ responses and errors ------------------------ *)
Statuses == {200, 404, 500, 600}

\* the value that the body served by endpoint number i decodes to, when it
\* decodes: every endpoint serves a value of its own
BodyOf(i) == i + 1

\* what one HTTP attempt at endpoint number i can come back with: a transport
\* error, or a response with a status and a body that does or does not
\* decode as T
Responses(i) ==
    [kind : {"timeout", "connect", "other"}, status : {0}, dec : {FALSE}, body : {0}]
    \cup [kind : {"http"}, status : Statuses, dec : {FALSE}, body : {0}]
    \cup [kind : {"http"}, status : Statuses, dec : {TRUE}, body : {BodyOf(i)}]

\* one answer of each kind of outcome of an attempt: a success, a value
\* returned as it is, and a failure
ResponseKinds(i) ==
    {[kind |-> "http", status |-> 200, dec |-> TRUE, body |-> BodyOf(i)],
     [kind |-> "http", status |-> 404, dec |-> TRUE, body |-> BodyOf(i)],
     [kind |-> "timeout", status |-> 0, dec |-> FALSE, body |-> 0]}

NoError == [type |-> "None", node |-> NoUrl, status |-> 0]
AllNodesUnavailable == [type |-> "AllNodesUnavailable", node |-> NoUrl, status |-> 0]
Timeout == [type |-> "Timeout", node |-> NoUrl, status |-> 0]
Network(u) == [type |-> "Network", node |-> u, status |-> 0]
ApiRequest(u, st) == [type |-> "ApiRequest", node |-> u, status |-> st]
ApiNodeUnavailable(u) == [type |-> "ApiNodeUnavailable", node |-> u, status |-> 0]
JsonParse(u) == [type |-> "JsonParse", node |-> u, status |-> 0]

\* StatusCode::is_success
is_success(st) == 200 <= st /\ st <= 299

\* response.json::<T>(): the decoded value, when the body decodes
json(r) == IF r.dec THEN [ok |-> TRUE, val |-> r.body] ELSE [ok |-> FALSE, val |-> 0]

\* a classification that decodes the body whatever the status is
ClassifyDecodingAll(r, base_url) ==
    IF r.kind = "http"
    THEN IF json(r).ok
         THEN [act |-> IF is_success(r.status) THEN "promote?" ELSE "return",
               val |-> json(r).val, err |-> NoError]
         ELSE [act |-> "next", val |-> 0, err |-> JsonParse(base_url)]
    ELSE IF r.kind = "timeout" THEN [act |-> "next", val |-> 0, err |-> Timeout]
    ELSE IF r.kind = "connect" THEN [act |-> "next", val |-> 0, err |-> Network(base_url)]
    ELSE [act |-> "next", val |-> 0, err |-> ApiRequest(base_url, 0)]

\* the classification of one attempt at endpoint base_url:
\*   "promote?"  a 2xx response that decoded (returned; promoted if not preferred)
\*   "return"    another status below 500 that decoded (returned as it is)
\*   "next"      anything else: err is recorded and the loop moves on
Classify(r, base_url) ==
    IF r.kind = "http"
    THEN IF is_success(r.status)
         THEN IF json(r).ok
              THEN [act |-> "promote?", val |-> json(r).val, err |-> NoError]
              ELSE [act |-> "next", val |-> 0, err |-> JsonParse(base_url)]
         ELSE IF r.status >= 500
              THEN [act |-> "next", val |-> 0, err |-> ApiNodeUnavailable(base_url)]
              ELSE IF json(r).ok
                   THEN [act |-> "return", val |-> json(r).val, err |-> NoError]
                   ELSE [act |-> "next", val |-> 0, err |-> ApiRequest(NoUrl, r.status)]
    ELSE IF r.kind = "timeout" THEN [act |-> "next", val |-> 0, err |-> Timeout]
    ELSE IF r.kind = "connect" THEN [act |-> "next", val |-> 0, err |-> Network(base_url)]
    ELSE [act |-> "next", val |-> 0, err |-> ApiRequest(base_url, 0)]

\* a loop that tries an endpoint again when its body did not decode
next_index_retrying(i, c) == IF c.err.type = "JsonParse" THEN i ELSE i + 1

\* the loop moves on to the next endpoint after a failed attempt, whatever
\* the failure was
next_index(i, c) == i + 1

\* a loop that starts at the preferred endpoint
LoopStartAtPreferred(cur) == cur

\* the loop starts at the head of the snapshot: nodes.iter().enumerate()
LoopStart(cur) == 0

\* promotion of later endpoints only
ShouldPromoteForward(i, cur) == i > cur

\* promotion on every success, the preferred endpoint's included
ShouldPromoteAlways(i, cur) == TRUE

\* `index != config_guard.current_node_index`
ShouldPromote(i, cur) == i # cur

\* exhaustion that reports the generic error whatever was recorded
ExhaustedGeneric(le) == AllNodesUnavailable

\* last_error.unwrap_or(FanqieError::AllNodesUnavailable)
Exhausted(le) == IF le = NoError THEN AllNodesUnavailable ELSE le

Ok(v) == [ok |-> TRUE, value |-> v, err |-> NoError]
Err(e) == [ok |-> FALSE, value |-> 0, err |-> e]
\* nothing returned yet
NoRet == [ok |-> FALSE, value |-> 0, err |-> NoError]

\* Option<usize>
NoneOpt == [some |-> FALSE, v |-> 0]
Some(k) == [some |-> TRUE, v |-> k]
unwrap_or(o, d) == IF o.some THEN o.v ELSE d

(* --------------------------- bookkeeping ------------------------------ *)
\* the history of the call in progress: the endpoint indices it has
\* attempted, the preferred index and the cache it found when it got its
\* read guard (kept while it holds the guard),
\* whether the succeeding index differed from the preferred one when it gave
\* up the guard, how often it wrote the index and the cache, the permits it
\* has acquired, and the response it is about to return from
NoResp == [kind |-> "none", status |-> 0, dec |-> FALSE, body |-> 0]
HistNew ==
    [attempted |-> <<>>, idxSnap |-> 0, cacheSnap |-> NoUrl,
     differed |-> FALSE, wrote |-> 0, wroteCache |-> 0, acquired |-> 0,
     resp |-> NoResp]

\* what a step returned to a caller: the result of request(), the index of
\* the endpoint it returned from, and the history of the call
NoEvent == [kind |-> "none"]
Returned(p, ret, via, h) ==
    [kind |-> "return", caller |-> p, ret |-> ret, via |-> via, hist |-> h]

Range(f) == {f[i] : i \in DOMAIN f}

\* One step of caller p: p's own new locals, the lock and gate as p leaves
\* them, and the resumption of every task that this step hands a permit or
\* a guard to.  A task resumed with a permit goes on to config.read(); one
\* resumed with a read guard takes its snapshot and enters the loop, or
\* goes on to read the endpoint path if that is what it wanted the guard
\* for; one resumed with the write guard goes on to set_node.  cur1 and cache1 are
\* the registry index and the cache as this step leaves them.
Update(p, pcp, np, ip, lep, dp, hp, lock1, sem1, ev, cur1, cache1) ==
    LET woken == Range(semaphore.waiters) \ Range(sem1.waiters)
        newL  == {q \in RwNewReaders(config_lock, lock1) \ {p} : pc[q] = "lookup_wait"}
        newR  == (RwNewReaders(config_lock, lock1) \ {p}) \ newL
        newW  == RwNewWriter(config_lock, lock1) \ {p}
    IN  /\ config_lock' = lock1
        /\ semaphore' = sem1
        /\ event' = ev
        /\ current_node_index' = cur1
        /\ current_node' = cache1
        /\ pc' = [q \in Callers |->
                    IF q = p THEN pcp
                    ELSE IF q \in woken THEN "read"
                    ELSE IF q \in newL THEN "lookup"
                    ELSE IF q \in newR THEN "send"
                    ELSE IF q \in newW THEN "set_node"
                    ELSE pc[q]]
        /\ nodes' = [q \in Callers |->
                    IF q = p THEN np
                    ELSE IF q \in newR THEN api_sources
                    ELSE nodes[q]]
        /\ index' = [q \in Callers |->
                    IF q = p THEN ip
                    ELSE IF q \in newR THEN LoopStart(cur1)
                    ELSE index[q]]
        /\ last_error' = [last_error EXCEPT ![p] = lep]
        /\ data' = [data EXCEPT ![p] = dp]
        /\ hist' = [q \in Callers |->
                    IF q = p THEN hp
                    ELSE IF q \in woken THEN [hist[q] EXCEPT !.acquired = @ + 1]
                    ELSE IF q \in newR
                         THEN [hist[q] EXCEPT !.idxSnap = cur1, !.cacheSnap = cache1]
                    ELSE hist[q]]
        /\ job' = [job EXCEPT ![p] = IF @ = "started" THEN "running" ELSE @]
        /\ UNCHANGED <<bucketVars, api_sources, max_workers, max_concurrent, job_semaphore,
                       fetchVars, batchVars, bookVars>>

\* a permit released by hand on the success path only
DropPermitOnSuccess(s, ok) == IF ok THEN SemRelease(s) ELSE s

\* `_permit` goes out of scope on every return, whatever the result is
DropPermit(s, ok) == SemRelease(s)

\* request() returns: the locals are dropped, and with them the permit
Return(p, ev, lock1, cache1) ==
    Update(p, "idle", <<>>, 0, NoError, 0, HistNew, lock1,
           DropPermit(semaphore, ev.ret.ok), ev, current_node_index, cache1)

(* ----------------------------- request() ------------------------------ *)
\* self.semaphore.acquire().await
Acquire(p) ==
    /\ pc[p] = "idle"
    /\ job[p] \in {"none", "started", "running"}
    /\ Update(p, IF SemAvailable(semaphore) THEN "read" ELSE "sem_wait",
              <<>>, 0, NoError, 0,
              [HistNew EXCEPT !.acquired = IF SemAvailable(semaphore) THEN 1 ELSE 0],
              config_lock, SemAcquire(semaphore, p), NoEvent,
              current_node_index, current_node)

\* config.read().await, the snapshot `nodes`, and the start of the loop
ReadLock(p) ==
    /\ pc[p] = "read"
    /\ IF RwCanRead(config_lock)
       THEN Update(p, "send", api_sources, LoopStart(current_node_index), NoError, 0,
                   [hist[p] EXCEPT !.idxSnap = current_node_index,
                                   !.cacheSnap = current_node],
                   [config_lock EXCEPT !.readers = @ \cup {p}], semaphore, NoEvent,
                   current_node_index, current_node)
       ELSE Update(p, "rw_wait", nodes[p], index[p], NoError, 0, hist[p],
                   RwEnqueue(config_lock, p, "r"), semaphore, NoEvent,
                   current_node_index, current_node)

\* one pass of the loop body: request.send().await answers r, the answer is
\* classified, and the call moves on to the next endpoint, returns, or drops
\* its read guard to go for the write guard
Attempt(p, r) ==
    /\ pc[p] = "send"
    /\ index[p] < Len(nodes[p])
    /\ LET i == index[p]
           base_url == nodes[p][i + 1]
           c == Classify(r, base_url)
           h == [hist[p] EXCEPT !.attempted = Append(@, i)]
           unlocked == RwReadUnlock(config_lock, p)
       IN  IF c.act = "next"
           THEN IF i + 1 < Len(nodes[p])
                THEN Update(p, "send", nodes[p], next_index(i, c), c.err, 0, h,
                            config_lock, semaphore, NoEvent,
                            current_node_index, current_node)
                ELSE Return(p, Returned(p, Err(Exhausted(c.err)), i,
                                        [h EXCEPT !.resp = r]),
                            unlocked, current_node)
           ELSE IF c.act = "promote?" /\ ShouldPromote(i, current_node_index)
                THEN Update(p, "write", nodes[p], i, last_error[p], c.val,
                            [h EXCEPT !.resp = r, !.idxSnap = 0, !.cacheSnap = NoUrl,
                                      !.differed = (i # current_node_index)],
                            unlocked, semaphore, NoEvent,
                            current_node_index, current_node)
                ELSE Return(p, Returned(p, Ok(c.val), i, [h EXCEPT !.resp = r]),
                            unlocked, current_node)

\* config.write().await, after drop(config_guard)
WriteLock(p) ==
    /\ pc[p] = "write"
    /\ IF RwCanWrite(config_lock)
       THEN Update(p, "set_node", nodes[p], index[p], last_error[p], data[p], hist[p],
                   [config_lock EXCEPT !.writer = p], semaphore, NoEvent,
                   current_node_index, current_node)
       ELSE Update(p, "rw_wait", nodes[p], index[p], last_error[p], data[p], hist[p],
                   RwEnqueue(config_lock, p, "w"), semaphore, NoEvent,
                   current_node_index, current_node)

\* config_guard.set_node(index), up to self.current_node.lock().await
SetNode(p) ==
    /\ pc[p] = "set_node"
    /\ LET res == set_node(Len(api_sources), current_node_index, index[p])
       IN  Update(p, "set_cur", nodes[p], index[p], last_error[p], data[p],
                  [hist[p] EXCEPT !.wrote = @ + (IF res.ok THEN 1 ELSE 0)],
                  config_lock, semaphore, NoEvent, res.index, current_node)

\* set_current_node(base_url): the cache is written under its mutex, which is
\* taken and dropped within the statement; then the write guard is dropped
\* and request() returns Ok(data)
SetCurrentNode(p) ==
    /\ pc[p] = "set_cur"
    /\ Return(p, Returned(p, Ok(data[p]), index[p],
                           [hist[p] EXCEPT !.wroteCache = @ + 1]),
              RwWriteUnlock(config_lock), nodes[p][index[p] + 1])

(* ------------------------ the endpoint lookups ------------------------ *)
\* what a lookup of an endpoint path by caller p did
LookedUp(p) == [kind |-> "lookup", caller |-> p]

\* the head of get_book_detail, get_directory, get_chapter_list,
\* get_chapter_content and search_books: config.read().await; when the guard
\* is there at once the path is cloned and the guard dropped in the same
\* step, else the caller joins the lock's queue
Lookup(p) ==
    /\ pc[p] = "idle"
    /\ IF RwCanRead(config_lock)
       THEN Update(p, "idle", <<>>, 0, NoError, 0, HistNew, config_lock, semaphore,
                   LookedUp(p), current_node_index, current_node)
       ELSE Update(p, "lookup_wait", <<>>, 0, NoError, 0, HistNew,
                   RwEnqueue(config_lock, p, "r"), semaphore, NoEvent,
                   current_node_index, current_node)

\* resumed with the read guard: the path is cloned and the guard dropped
LookupDone(p) ==
    /\ pc[p] = "lookup"
    /\ Update(p, "idle", <<>>, 0, NoError, 0, HistNew, RwReadUnlock(config_lock, p),
              semaphore, LookedUp(p), current_node_index, current_node)

(* ------------------- the registry's other mutators -------------------- *)
\* what a call of a registry method did: the method, its argument, its
\* result and the index it found
Mutated(op, arg, ok, before) ==
    [kind |-> "registry", op |-> op, arg |-> arg, ok |-> ok, before |-> before]

\* a method of AppConfig that takes &mut self runs under the write guard;
\* here a task gets the guard at once, calls the method and drops the guard
Mutate(ev, res) ==
    /\ RwCanWrite(config_lock)
    /\ current_node_index' = res.index
    /\ event' = ev
    /\ UNCHANGED <<bucketVars, api_sources, max_workers, config_lock, semaphore, current_node,
                   pc, nodes, index, last_error, data, hist, jobVars, fetchVars,
                   batchVars, bookVars>>

SetNodeCall(i) ==
    LET res == set_node(Len(api_sources), current_node_index, i)
    IN  Mutate(Mutated("set_node", i, res.ok, current_node_index), res)

SwitchToNextNodeCall ==
    LET res == switch_to_next_node(Len(api_sources), current_node_index)
    IN  Mutate(Mutated("switch_to_next_node", 0, res.ok, current_node_index), res)

ResetNodeIndexCall ==
    LET res == reset_node_index(Len(api_sources), current_node_index)
    IN  Mutate(Mutated("reset_node_index", 0, res.ok, current_node_index), res)

(* --------------------------- BatchDownloader -------------------------- *)
\* a permit that a failed job keeps
JobPermitKeptOnError(s, ok) == IF ok THEN SemRelease(s) ELSE s

\* the job's permit is dropped at the end of its block, on the Ok arm and on
\* the Err arm of download_book alike
JobPermitDropped(s, ok) == SemRelease(s)

\* semaphore.acquire().await at the head of a job's block
JobStart(p) ==
    /\ job[p] = "pending"
    /\ job_semaphore' = SemAcquire(job_semaphore, p)
    /\ job' = [job EXCEPT ![p] = IF SemAvailable(job_semaphore) THEN "started"
                                 ELSE "job_wait"]
    /\ event' = NoEvent
    /\ UNCHANGED <<bucketVars, reqVars, max_workers, max_concurrent, fetchVars, batchVars,
                   bookVars>>

\* download_book(options) has returned, Ok or Err, after the requests it made
\* one after another; the BatchResult is built and the job's permit dropped,
\* which resumes the job at the head of the queue
JobFinish(p, ok) ==
    /\ job[p] = "running"
    /\ pc[p] = "idle"
    /\ job_semaphore' = JobPermitDropped(job_semaphore, ok)
    /\ job' = [q \in Callers |->
                 IF q = p THEN (IF ok THEN "succeeded" ELSE "failed")
                 ELSE IF q \in Range(job_semaphore.waiters) \ Range(job_semaphore'.waiters)
                      THEN "started"
                 ELSE job[q]]
    /\ event' = NoEvent
    /\ UNCHANGED <<bucketVars, reqVars, max_workers, max_concurrent, fetchVars, batchVars,
                   bookVars>>

(* ------------------ Downloader::download_all_chapters ----------------- *)
Min(a, b) == IF a < b THEN a ELSE b

\* slice::chunks(k) for k > 0: consecutive pieces of k elements, the last one
\* shorter when k does not divide the length
RECURSIVE Chunks(_, _)
Chunks(s, k) ==
    IF s = <<>> THEN <<>>
    ELSE LET m == Min(k, Len(s))
         IN  <<SubSeq(s, 1, m)>> \o Chunks(SubSeq(s, m + 1, Len(s)), k)

\* what client.get_chapter_content(chapter_id) can come back with: an error
\* of request(), or an ApiResponse with a code and with or without data
ChapterResponses ==
    [ok : {FALSE}, code : {0}, data : {FALSE}]
    \cup [ok : {TRUE}, code : {200, 404}, data : BOOLEAN]

\* download_chapter: Ok(content) when the request succeeded with code 200 and
\* data, an error otherwise
download_chapter(r) ==
    IF ~r.ok THEN "err"
    ELSE IF r.code # 200 THEN "err"
    ELSE IF r.data THEN "ok" ELSE "err"

\* DownloadProgress
Started(total) == [type |-> "Started", total |-> total, current |-> 0, title |-> 0]
\* an item event that counts positions from 0
ChapterFromZero(current, total, title) ==
    [type |-> "Chapter", total |-> total, current |-> current - 1, title |-> title]

Chapter(current, total, title) ==
    [type |-> "Chapter", total |-> total, current |-> current, title |-> title]
Error == [type |-> "Error", total |-> 0, current |-> 0, title |-> 0]
Completed(path) == [type |-> "Completed", total |-> 0, current |-> 0, title |-> path]

\* `if let Some(tx) = &progress_tx { tx.send(ev).await.ok(); }`: nothing is
\* sent without a sender, and a send to a closed channel fails and is ignored
Send(ev) == IF progress_tx = "open" THEN Append(progress, ev) ELSE progress

\* every position from the chunk with 0-based index w on
ChunkPositionsOnwards(w) ==
    {g \in 1..Len(chapters) : (g - 1) \div max_workers >= w}

\* the positions in `chapters` of the chunk with 0-based index w
ChunkPositions(w) ==
    {g \in 1..Len(chapters) : (g - 1) \div max_workers = w}

\* a join that is over as soon as one future has resolved
some_resolved(window) == \E g \in window : fetch[g] \in {"ok", "err"}

\* join_all(futures).await is over when every future has resolved
all_resolved(window) == \A g \in window : fetch[g] \in {"ok", "err"}

\* results in the order in which the futures resolved
join_in_completion_order(chunk, first, done) ==
    [j \in 1..Len(done) |->
        [ok |-> fetch[done[j]] = "ok", content |-> chapters[done[j]]]]

\* join_all gives the results in the order of the futures, which is the order
\* of the chunk, whatever the order `done` in which they resolved
join_all(chunk, first, done) ==
    [j \in 1..Len(chunk) |->
        [ok |-> fetch[first + j] = "ok", content |-> chunk[j]]]

\* a chapter that is dropped when its event could not be sent
PushIfSent(res, result) ==
    IF result.ok /\ progress_tx # "closed" THEN Append(res, result.content) ELSE res

\* a failed chapter that is kept in the output
PushAlways(res, result) == Append(res, result.content)

\* `match result`: Ok(content) is pushed, Err(e) is only reported
Push(res, result) == IF result.ok THEN Append(res, result.content) ELSE res

\* up to the loop: max_workers is read under a read guard that is dropped at
\* once, Started is sent, and `chapters` is cut into chunks; chunks(0) panics
Begin ==
    /\ fpc = "start"
    /\ RwCanRead(config_lock)
    /\ progress' = Send(Started(Len(chapters)))
    /\ IF max_workers = 0
       THEN fpc' = "panicked" /\ chunks' = chunks
       ELSE fpc' = "chunk" /\ chunks' = Chunks(chapters, max_workers)
    /\ chunk_index' = 0
    /\ results' = <<>>
    /\ event' = NoEvent
    /\ UNCHANGED <<bucketVars, reqVars, max_workers, jobVars, batchVars, bookVars, request_failed,
                   chapters, progress_tx, fetch,
                   completed, chunk_results, chunk_pos, launched>>

\* the head of one pass of the loop: the futures of the chunk are made and
\* join_all polls each of them for the first time, which sends the request
Launch ==
    /\ fpc = "chunk"
    /\ chunk_index < Len(chunks)
    /\ fetch' = [g \in DOMAIN fetch |->
                    IF g \in ChunkPositions(chunk_index) THEN "running" ELSE fetch[g]]
    /\ completed' = <<>>
    /\ launched' = Append(launched, Len(chunks[chunk_index + 1]))
    /\ fpc' = "join"
    /\ event' = NoEvent
    /\ UNCHANGED <<bucketVars, reqVars, max_workers, jobVars, batchVars, bookVars, request_failed,
                   chapters, progress_tx, chunks,
                   chunk_index, chunk_results, chunk_pos, results, progress>>

\* download_chapter at position g resolves, its request having answered r
Resolve(g, r) ==
    /\ fpc = "join"
    /\ g \in DOMAIN fetch
    /\ fetch[g] = "running"
    /\ fetch' = [fetch EXCEPT ![g] = download_chapter(r)]
    /\ completed' = Append(completed, g)
    /\ event' = NoEvent
    /\ request_failed' = (request_failed \/ ~r.ok)
    /\ UNCHANGED <<bucketVars, reqVars, max_workers, jobVars, batchVars, bookVars, chapters,
                   progress_tx, fpc, chunks, chunk_index, chunk_results, chunk_pos,
                   results, progress, launched>>

\* join_all(futures).await returns chunk_results
Joined ==
    /\ fpc = "join"
    /\ all_resolved(ChunkPositions(chunk_index))
    /\ chunk_results' = join_all(chunks[chunk_index + 1], chunk_index * max_workers,
                                 completed)
    /\ chunk_pos' = 0
    /\ fpc' = "collect"
    /\ event' = NoEvent
    /\ UNCHANGED <<bucketVars, reqVars, max_workers, jobVars, batchVars, bookVars, request_failed,
                   chapters, progress_tx, chunks,
                   chunk_index, fetch, completed, results, progress, launched>>

\* one pass of the loop over chunk_results; after the last one the outer loop
\* goes on to the next chunk
Collect ==
    /\ fpc = "collect"
    /\ chunk_pos < Len(chunk_results)
    /\ LET result == chunk_results[chunk_pos + 1]
           current == chunk_index * max_workers + chunk_pos + 1
       IN  /\ results' = Push(results, result)
           /\ progress' = Send(IF result.ok
                               THEN Chapter(current, Len(chapters), result.content)
                               ELSE Error)
    /\ chunk_pos' = chunk_pos + 1
    /\ IF chunk_pos + 1 = Len(chunk_results)
       THEN fpc' = "chunk" /\ chunk_index' = chunk_index + 1
       ELSE fpc' = "collect" /\ chunk_index' = chunk_index
    /\ event' = NoEvent
    /\ UNCHANGED <<bucketVars, reqVars, max_workers, jobVars, batchVars, bookVars, request_failed,
                   chapters, progress_tx, chunks,
                   fetch, completed, chunk_results, launched>>

\* after the last chunk: Ok(results)
Finish ==
    /\ fpc = "chunk"
    /\ chunk_index = Len(chunks)
    /\ fpc' = "done"
    /\ event' = [kind |-> "fetched", ret |-> Ok(results)]
    /\ UNCHANGED <<bucketVars, reqVars, max_workers, jobVars, batchVars, bookVars, request_failed,
                   chapters, progress_tx, chunks,
                   chunk_index, fetch, completed, chunk_results, chunk_pos, results,
                   progress, launched>>

(* ------------------------- the batch command -------------------------- *)
\* the cap that cmd_batch puts on the number of jobs run at once
SafetyCap == 5

\* a job gate as wide as was asked for
Unclamped(c) == c

\* `concurrent.min(5)`
Clamp(c) == Min(c, SafetyCap)

\* what download_book(options) can come back with
BookOutcomes == {[ok |-> TRUE, path |-> "path"], [ok |-> FALSE, path |-> ""]}

\* a BatchResult that reports the path and an error message together
BatchResultWithMessage(book_id, r) ==
    [book_id |-> book_id, success |-> r.ok, output_path |-> r.path,
     error |-> "error"]

\* the BatchResult that a job's block builds from what download_book returned
\* (durations are left out)
BatchResult(book_id, r) ==
    IF r.ok
    THEN [book_id |-> book_id, success |-> TRUE, output_path |-> r.path,
          error |-> ""]
    ELSE [book_id |-> book_id, success |-> FALSE, output_path |-> "",
          error |-> "error"]
NoResult == [book_id |-> "", success |-> FALSE, output_path |-> "", error |-> ""]

\* the jobs that hold a job permit and are inside download_book
Downloading == {i \in DOMAIN job : job[i] = "running"}
\* the jobs whose block has ended
Ended == {i \in DOMAIN job : job[i] \in {"succeeded", "failed"}}

\* the gate after the jobs i..n have called semaphore.acquire() in this order
RECURSIVE AcquireAll(_, _, _)
AcquireAll(s, i, n) ==
    IF i > n THEN s ELSE AcquireAll(SemAcquire(s, i), i + 1, n)

\* only the results of the jobs that succeeded
successful_results(res, n) == SelectSeq([i \in 1..n |-> res[i]], LAMBDA r : r.success)

\* join_all(futures).await gives one result per future, in the order of the
\* futures
all_results(res, n) == [i \in 1..n |-> res[i]]

\* cmd_batch up to batch_download: without a book id it prints an error and
\* returns Ok(()); otherwise it builds the BatchOptions with the clamped gate
\* width
CmdBatch ==
    /\ bpc = "cli"
    /\ IF book_ids = <<>>
       THEN bpc' = "empty" /\ max_concurrent' = max_concurrent
       ELSE bpc' = "run" /\ max_concurrent' = Clamp(concurrent)
    /\ event' = NoEvent
    /\ UNCHANGED <<bucketVars, reqVars, max_workers, job_semaphore, job, fetchVars, bookVars, concurrent,
                   book_ids, job_result, batch_results, overtook>>

\* BatchDownloader::run up to the first poll of join_all: the gate is made
\* and every job's block is polled in the order of book_ids, so that the
\* jobs call acquire() in that order; a job that gets a permit enters
\* download_book, the others queue at the gate
RunStart ==
    /\ bpc = "run"
    /\ LET n == Len(book_ids)
           gate == AcquireAll(SemNew(max_concurrent), 1, n)
       IN  /\ job_semaphore' = gate
           /\ job' = [i \in 1..n |-> IF i \in Range(gate.waiters) THEN "job_wait"
                                     ELSE "running"]
           /\ job_result' = [i \in 1..n |-> NoResult]
    /\ bpc' = "join"
    /\ event' = NoEvent
    /\ UNCHANGED <<bucketVars, reqVars, max_workers, max_concurrent, fetchVars, bookVars, concurrent,
                   book_ids, batch_results, overtook>>

\* download_book of job i returns r: the job's BatchResult is built and its
\* permit dropped, which lets the job at the head of the queue into
\* download_book
BookDone(i, r) ==
    /\ bpc = "join"
    /\ i \in DOMAIN job
    /\ job[i] = "running"
    /\ job_semaphore' = JobPermitDropped(job_semaphore, r.ok)
    /\ job' = [k \in DOMAIN job |->
                 IF k = i THEN (IF r.ok THEN "succeeded" ELSE "failed")
                 ELSE IF k \in Range(job_semaphore.waiters) \ Range(job_semaphore'.waiters)
                      THEN "running"
                 ELSE job[k]]
    /\ job_result' = [job_result EXCEPT ![i] = BatchResult(book_ids[i], r)]
    /\ overtook' = (overtook \/ \E k \in 1..(i - 1) : k \notin Ended)
    /\ event' = NoEvent
    /\ UNCHANGED <<bucketVars, reqVars, max_workers, max_concurrent, fetchVars, bookVars, concurrent,
                   book_ids, bpc, batch_results>>

\* every job's block has ended: join_all returns, the summary is printed
\* and run returns Ok(results)
RunReturn ==
    /\ bpc = "join"
    /\ Ended = DOMAIN job
    /\ batch_results' = all_results(job_result, Len(book_ids))
    /\ bpc' = "done"
    /\ event' = [kind |-> "batch", ret |-> Ok(batch_results')]
    /\ UNCHANGED <<bucketVars, reqVars, max_workers, jobVars, fetchVars, bookVars, concurrent, book_ids,
                   job_result, overtook>>

(* ---------------------- Downloader::download_book --------------------- *)
BookNotFound == [type |-> "BookNotFound", node |-> NoUrl, status |-> 0]
ChapterFetch == [type |-> "ChapterFetch", node |-> NoUrl, status |-> 0]
Download == [type |-> "Download", node |-> NoUrl, status |-> 0]
FileWrite == [type |-> "FileWrite", node |-> NoUrl, status |-> 0]

\* the error that request() returns once every endpoint has failed; which
\* one was recorded last is the request layer's matter
RequestErrors == {AllNodesUnavailable, Timeout}

\* the PathBuf that an exporter returns
output_path == 1

\* what client.get_book_detail(book_id) can come back with: an error of
\* request(), or a response with a code and with or without data.data
DetailResponses ==
    [ok : {FALSE}, err : RequestErrors, code : {0}, data : {FALSE}]
    \cup [ok : {TRUE}, err : {NoError}, code : {200, 404}, data : BOOLEAN]

\* what client.get_directory(book_id) can come back with; `lists` is the
\* length of data.lists where there is one
DirectoryResponses ==
    [ok : {FALSE}, err : RequestErrors, code : {0}, lists : {NoneOpt}]
    \cup [ok : {TRUE}, err : {NoError}, code : {200, 404},
          lists : {NoneOpt} \cup {Some(n) : n \in 0..MaxChapters}]

\* what client.get_chapter_list(book_id) can come back with; `volumes` is the
\* number of chapters in data.data.chapter_list_with_volume and `data` the
\* length of data.data.data, where there is one
ChapterListResponses ==
    [ok : {FALSE}, err : RequestErrors, code : {0}, volumes : {NoneOpt},
     data : {NoneOpt}]
    \cup [ok : {TRUE}, err : {NoError}, code : {200, 404},
          volumes : {NoneOpt} \cup {Some(n) : n \in 0..MaxChapters},
          data : {NoneOpt} \cup {Some(n) : n \in 0..MaxChapters}]

\* a list of n chapters, told apart by their ids
ChapterInfos(n) == [k \in 1..n |-> k]

\* a metadata fetch whose failure is passed over
book_detail_unchecked(r) == Ok(1)

\* the head of download_book: `get_book_detail(..).await?`, the code check
\* and the unwrapping of data.data
book_detail(r) ==
    IF ~r.ok THEN Err(r.err)
    ELSE IF r.code # 200 THEN Err(BookNotFound)
    ELSE IF r.data THEN Ok(1) ELSE Err(BookNotFound)

\* get_chapters after `get_directory(..).await?`: the directory's list when
\* the code is 200 and there is one, else the chapter list is asked for
directory_lists(r) ==
    IF r.code = 200 /\ r.lists.some THEN Some(r.lists.v) ELSE NoneOpt

\* a get_chapters that looks at the flat list before the volumes
chapter_list_flat_first(r) ==
    IF r.code # 200 THEN Err(ChapterFetch)
    ELSE IF r.data.some THEN Ok(r.data.v)
    ELSE IF r.volumes.some /\ r.volumes.v > 0 THEN Ok(r.volumes.v)
    ELSE Err(ChapterFetch)

\* get_chapters after `get_chapter_list(..).await?`
chapter_list(r) ==
    IF r.code # 200 THEN Err(ChapterFetch)
    ELSE IF r.volumes.some /\ r.volumes.v > 0 THEN Ok(r.volumes.v)
    ELSE IF r.data.some THEN Ok(r.data.v)
    ELSE Err(ChapterFetch)

Max(a, b) == IF a >= b THEN a ELSE b

\* the bounds of the slice of selected chapters
RangeStart == Max(unwrap_or(options.start_chapter, 1), 1) - 1
RangeEnd(total) == Min(unwrap_or(options.end_chapter, total), total)

\* what download_book did last: the call `from` came back with r, and the
\* job returned ret on it or went on (NoRet)
Answered(from, r, ret) == [kind |-> "book", from |-> from, resp |-> r, ret |-> ret]

\* download_book returns ret, after the call `from` came back with r
BookReturn(ret, from, r) ==
    /\ bkpc' = "done"
    /\ book_ret' = ret
    /\ event' = Answered(from, r, ret)

\* download_book from the return of get_chapters with n chapters up to the
\* call of download_all_chapters: the range is cut out (the slice panics
\* when it ends before it starts), the output directory is made, and
\* download_all_chapters is called on the selection without a sender
Select(n, dir, from, r) ==
    /\ listing' = ChapterInfos(n)
    /\ IF RangeStart >= n
       THEN BookReturn(Err(Download), from, r) /\ UNCHANGED fetchVars
       ELSE IF RangeEnd(n) < RangeStart
       THEN /\ bkpc' = "panicked"
            /\ book_ret' = book_ret
            /\ event' = Answered(from, r, NoRet)
            /\ UNCHANGED fetchVars
       ELSE IF ~dir
       THEN BookReturn(Err(FileWrite), from, r) /\ UNCHANGED fetchVars
       ELSE /\ bkpc' = "fetch"
            /\ book_ret' = book_ret
            /\ event' = Answered(from, r, NoRet)
            /\ chapters' = SubSeq(ChapterInfos(n), RangeStart + 1, RangeEnd(n))
            /\ fetch' = [g \in 1..(RangeEnd(n) - RangeStart) |-> "idle"]
            /\ progress_tx' = "None"
            /\ fpc' = "start"
            /\ UNCHANGED <<chunks, chunk_index, completed, chunk_results, chunk_pos,
                           results, progress, launched, request_failed>>

\* client.get_book_detail(book_id) returns r; a request only returns when the
\* gate has a permit to give
GetBookDetail(r) ==
    /\ bkpc = "detail"
    /\ max_workers > 0
    /\ exhausted' = IF r.ok THEN exhausted ELSE "detail"
    /\ IF book_detail(r).ok
       THEN /\ bkpc' = "directory"
            /\ book_ret' = book_ret
            /\ event' = Answered("detail", r, NoRet)
       ELSE BookReturn(book_detail(r), "detail", r)
    /\ UNCHANGED <<bucketVars, reqVars, max_workers, jobVars, fetchVars, batchVars, options, listing,
                   exported>>

\* client.get_directory(book_id) returns r
GetDirectory(r, dir) ==
    /\ bkpc = "directory"
    /\ max_workers > 0
    /\ exhausted' = IF r.ok THEN exhausted ELSE "directory"
    /\ IF ~r.ok
       THEN BookReturn(Err(r.err), "directory", r) /\ UNCHANGED <<listing, fetchVars>>
       ELSE IF directory_lists(r).some
       THEN Select(directory_lists(r).v, dir, "directory", r)
       ELSE /\ bkpc' = "chapter_list"
            /\ book_ret' = book_ret
            /\ event' = Answered("directory", r, NoRet)
            /\ UNCHANGED <<listing, fetchVars>>
    /\ UNCHANGED <<bucketVars, reqVars, max_workers, jobVars, batchVars, options, exported>>

\* client.get_chapter_list(book_id) returns r
GetChapterList(r, dir) ==
    /\ bkpc = "chapter_list"
    /\ max_workers > 0
    /\ exhausted' = IF r.ok THEN exhausted ELSE "book"
    /\ IF ~r.ok
       THEN BookReturn(Err(r.err), "chapter_list", r) /\ UNCHANGED <<listing, fetchVars>>
       ELSE IF chapter_list(r).ok
       THEN Select(chapter_list(r).value, dir, "chapter_list", r)
       ELSE BookReturn(chapter_list(r), "chapter_list", r)
            /\ UNCHANGED <<listing, fetchVars>>
    /\ UNCHANGED <<bucketVars, reqVars, max_workers, jobVars, batchVars, options, exported>>

\* download_all_chapters has returned: the exporter that the format names is
\* called on what was fetched, and its path or its error is returned
Export(written) ==
    /\ bkpc = "fetch"
    /\ fpc = "done"
    /\ exported' = exported + 1
    /\ BookReturn(IF written THEN Ok(output_path) ELSE Err(FileWrite),
                  "export", written)
    /\ UNCHANGED <<bucketVars, reqVars, max_workers, jobVars, fetchVars, batchVars, options, listing,
                   exhausted>>

(* ------------------------------ TokenBucket --------------------------- *)
\* tokio::sync::Mutex::new(v): a semaphore of one permit around the value
MutexNew(v) == [sem |-> SemNew(1), value |-> v]

\* a mutex that never makes a caller wait
lock_free_always(m) == TRUE

\* lock() completes at once exactly when nobody holds or awaits the mutex
lock_free(m) == SemAvailable(m.sem)

\* lock(): take the mutex, or join its queue
lock(m, p) ==
    IF lock_free(m)
    THEN [m EXCEPT !.sem.permits = @ - 1]
    ELSE [m EXCEPT !.sem.waiters = Append(@, p)]

\* dropping the guard: the mutex goes to the head waiter, else it is free
unlock(m) == [m EXCEPT !.sem = SemRelease(@)]

\* Instant::duration_since: zero when the other instant is later
duration_since(a, b) == IF a >= b THEN a - b ELSE 0

\* a refill that is not cut off at the capacity
refill_uncapped(t, elapsed) == t + elapsed * rate

\* (*tokens + elapsed * self.rate).min(self.capacity)
refill(t, elapsed) == Min(t + elapsed * rate, capacity)

\* a check that any amount passes
has_any_token(t) == t >= 0

\* `*tokens >= 1.0`
has_token(t) == t >= TokenUnit

\* (1.0 - *tokens) / self.rate seconds, as the token units still missing: the
\* sleep lasts until `rate` times the ticks slept reaches them
wait_time(t) == TokenUnit - t

NoLocal == [now |-> 0, elapsed |-> 0]
NoSleep == [at |-> 0, wait_time |-> 0]

\* a caller calls acquire() or try_acquire(): tokens.lock().await
Call(p, op) ==
    /\ tpc[p] = "idle"
    /\ calls < MaxCalls
    /\ calls' = calls + 1
    /\ burst' = (burst /\ op = "acquire")
    /\ call' = [call EXCEPT ![p] = op]
    /\ sleeps' = [sleeps EXCEPT ![p] = 0]
    /\ tokens' = lock(tokens, p)
    /\ tpc' = [tpc EXCEPT ![p] = IF lock_free(tokens) THEN "lock_last_update"
                                 ELSE "lock_tokens"]
    /\ event' = NoEvent
    /\ UNCHANGED <<rate, capacity, last_update, now, local, sleep, granted>>

\* holding `tokens`: last_update.lock().await
LockLastUpdate(p) ==
    /\ tpc[p] = "lock_last_update"
    /\ last_update' = lock(last_update, p)
    /\ tpc' = [tpc EXCEPT ![p] = IF lock_free(last_update) THEN "read"
                                 ELSE "lock_wait"]
    /\ event' = NoEvent
    /\ UNCHANGED <<rate, capacity, tokens, now, call, local, sleep, sleeps, calls,
                   granted, burst>>

\* `let now = Instant::now(); let elapsed = now.duration_since(*last_update)`
ReadClock(p) ==
    /\ tpc[p] = "read"
    /\ local' = [local EXCEPT ![p] = [now |-> now,
                                      elapsed |-> duration_since(now, last_update.value)]]
    /\ burst' = (burst /\ (sleeps[p] > 0 \/ now = 0))
    /\ tpc' = [tpc EXCEPT ![p] = "refill"]
    /\ event' = NoEvent
    /\ UNCHANGED <<rate, capacity, tokens, last_update, now, call, sleep, sleeps, calls,
                   granted>>

\* `*tokens = (*tokens + elapsed * self.rate).min(self.capacity);
\*  *last_update = now;`
Refill(p) ==
    /\ tpc[p] = "refill"
    /\ tokens' = [tokens EXCEPT !.value = refill(@, local[p].elapsed)]
    /\ last_update' = [last_update EXCEPT !.value = local[p].now]
    /\ local' = [local EXCEPT ![p] = NoLocal]
    /\ tpc' = [tpc EXCEPT ![p] = "check"]
    /\ event' = NoEvent
    /\ UNCHANGED <<rate, capacity, now, call, sleep, sleeps, calls, granted, burst>>

\* both guards are dropped by caller p: the callers at the heads of the two
\* queues are resumed with the mutex they waited for
Unlocked(p, pcp) ==
    [q \in Callers |->
        IF q = p THEN pcp
        ELSE IF q \in SemWoken(tokens.sem) THEN "lock_last_update"
        ELSE IF q \in SemWoken(last_update.sem) THEN "read"
        ELSE tpc[q]]

\* the call of caller p returns ret, its guards dropped; acquire() returns
\* nothing, which is taken as TRUE
BucketReturn(p, ret) ==
    /\ tpc' = Unlocked(p, "idle")
    /\ call' = [call EXCEPT ![p] = "none"]
    /\ sleeps' = [sleeps EXCEPT ![p] = 0]
    /\ event' = [kind |-> call[p], caller |-> p, ret |-> ret, sleeps |-> sleeps[p]]

\* `if *tokens >= 1.0`: a token is consumed and the call returns with both
\* guards dropped; else acquire drops both guards and sleeps for wait_time,
\* and try_acquire returns false.  With rate 0 the wait_time of acquire is
\* (1.0 - *tokens) / 0.0, which is infinite, and Duration::from_secs_f64
\* panics on it, after the guards were dropped
Check(p) ==
    /\ tpc[p] = "check"
    /\ last_update' = unlock(last_update)
    /\ IF has_token(tokens.value)
       THEN /\ tokens' = unlock([tokens EXCEPT !.value = @ - TokenUnit])
            /\ granted' = granted + 1
            /\ BucketReturn(p, TRUE)
            /\ sleep' = sleep
       ELSE /\ tokens' = unlock(tokens)
            /\ granted' = granted
            /\ IF call[p] = "acquire" /\ rate = 0
               THEN /\ tpc' = Unlocked(p, "panicked")
                    /\ sleep' = sleep
                    /\ sleeps' = sleeps
                    /\ call' = call
                    /\ event' = NoEvent
               ELSE IF call[p] = "acquire"
               THEN /\ tpc' = Unlocked(p, "sleeping")
                    /\ sleep' = [sleep EXCEPT ![p] =
                                    [at |-> now, wait_time |-> wait_time(tokens.value)]]
                    /\ sleeps' = [sleeps EXCEPT ![p] = @ + 1]
                    /\ call' = call
                    /\ event' = NoEvent
               ELSE /\ BucketReturn(p, FALSE)
                    /\ sleep' = sleep
    /\ UNCHANGED <<rate, capacity, now, local, calls, burst>>

\* tokio::time::sleep(wait_time) is over, not before the time asked for has
\* passed: the loop goes round to tokens.lock().await
Wake(p) ==
    /\ tpc[p] = "sleeping"
    /\ rate * (now - sleep[p].at) >= sleep[p].wait_time
    /\ tokens' = lock(tokens, p)
    /\ tpc' = [tpc EXCEPT ![p] = IF lock_free(tokens) THEN "lock_last_update"
                                 ELSE "lock_tokens"]
    /\ sleep' = [sleep EXCEPT ![p] = NoSleep]
    /\ event' = NoEvent
    /\ UNCHANGED <<rate, capacity, last_update, now, call, local, sleeps, calls, granted,
                   burst>>

\* time passes
Tick ==
    /\ now < MaxTime
    /\ now' = now + 1
    /\ event' = NoEvent
    /\ UNCHANGED <<reqVars, max_workers, jobVars, fetchVars, batchVars, bookVars, rate,
                   capacity, tokens, last_update, tpc, call, local, sleep, sleeps, calls,
                   granted, burst>>

\* a step of caller p on the bucket
Bucket(p) ==
    /\ \/ \E op \in {"acquire", "try_acquire"} : Call(p, op)
       \/ LockLastUpdate(p)
       \/ ReadClock(p)
       \/ Refill(p)
       \/ Check(p)
       \/ Wake(p)
    /\ UNCHANGED <<reqVars, max_workers, jobVars, fetchVars, batchVars, bookVars>>

(* --------------------------- specifications --------------------------- *)
\* the state after init_config() and init_api_client(): a non-empty endpoint
\* list (load_config_from_file refuses an empty one), index 0, a gate of
\* max_workers permits (a value the configuration file gives, which nothing
\* checks: it may be 0), the cache holding the preferred endpoint's base URL
InitClient ==
    /\ \E n \in 1..MaxNodes : api_sources = SubSeq(UrlPool, 1, n)
    /\ current_node_index = 0
    /\ max_workers \in 0..MaxWorkers
    /\ config_lock = RwNew
    /\ semaphore = SemNew(max_workers)
    /\ current_node = get_current_node(api_sources, current_node_index)
    /\ pc = [p \in Callers |-> "idle"]
    /\ nodes = [p \in Callers |-> <<>>]
    /\ index = [p \in Callers |-> 0]
    /\ last_error = [p \in Callers |-> NoError]
    /\ data = [p \in Callers |-> 0]
    /\ hist = [p \in Callers |-> HistNew]
    /\ event = NoEvent

\* no TokenBucket is made: the program makes none
NoBucket ==
    /\ rate = 1
    /\ capacity = 0
    /\ tokens = MutexNew(0)
    /\ last_update = MutexNew(0)
    /\ now = 0
    /\ tpc = [p \in Callers |-> "idle"]
    /\ call = [p \in Callers |-> "none"]
    /\ local = [p \in Callers |-> NoLocal]
    /\ sleep = [p \in Callers |-> NoSleep]
    /\ sleeps = [p \in Callers |-> 0]
    /\ calls = 0
    /\ granted = 0
    /\ burst = TRUE

\* no call of download_book is being followed
NoBook ==
    /\ options = [start_chapter |-> NoneOpt, end_chapter |-> NoneOpt]
    /\ bkpc = "none"
    /\ listing = <<>>
    /\ exported = 0
    /\ exhausted = "none"
    /\ book_ret = NoRet

\* the batch command is not being followed
NoBatchCommand ==
    /\ concurrent = 0
    /\ book_ids = <<>>
    /\ bpc = "none"
    /\ job_result = <<>>
    /\ batch_results = <<>>
    /\ overtook = FALSE

\* no batch is running
NoBatch ==
    /\ max_concurrent = 0
    /\ job_semaphore = SemNew(max_concurrent)
    /\ job = [p \in Callers |-> "none"]
    /\ NoBatchCommand

\* no call of download_all_chapters is being followed
NoFetch ==
    /\ chapters = <<>>
    /\ progress_tx = "None"
    /\ fpc = "none"
    /\ chunks = <<>>
    /\ chunk_index = 0
    /\ fetch = <<>>
    /\ completed = <<>>
    /\ chunk_results = <<>>
    /\ chunk_pos = 0
    /\ results = <<>>
    /\ progress = <<>>
    /\ launched = <<>>
    /\ request_failed = FALSE

\* callers outside any batch: the chapter fetches of one download
Init == InitClient /\ NoBatch /\ NoFetch /\ NoBook /\ NoBucket

Request(p) ==
    \/ Acquire(p)
    \/ ReadLock(p)
    \/ \E r \in Responses(index[p]) : Attempt(p, r)
    \/ WriteLock(p)
    \/ SetNode(p)
    \/ SetCurrentNode(p)

Next == \E p \in Callers : Request(p)

Spec == Init /\ [][Next]_vars

\* the request layer with the endpoint lookups that the callers of request()
\* make
LookupNext ==
    \E p \in Callers :
        \/ Request(p)
        \/ Lookup(p)
        \/ LookupDone(p)

LookupSpec == Init /\ [][LookupNext]_vars

\* the request layer together with callers of the registry's other mutators,
\* which no code of the program calls: the requests pass a gate of one permit
\* and the mutators are called at any moment the write guard is free
RegInit == Init /\ max_workers = 1

RegNext ==
    \/ \E p \in Callers : Request(p)
    \/ \E i \in 0..MaxNodes : SetNodeCall(i)
    \/ SwitchToNextNodeCall
    \/ ResetNodeIndexCall

RegSpec == RegInit /\ [][RegNext]_vars

\* a batch: every caller is one job of BatchDownloader::run
JobInit ==
    /\ InitClient
    /\ max_concurrent \in 0..MaxConcurrent
    /\ job_semaphore = SemNew(max_concurrent)
    /\ job = [p \in Callers |-> "pending"]
    /\ NoBatchCommand
    /\ NoFetch
    /\ NoBook
    /\ NoBucket

\* the requests of a job, their attempts taken by the kind of outcome
JobRequest(p) ==
    \/ Acquire(p)
    \/ ReadLock(p)
    \/ \E r \in ResponseKinds(index[p]) : Attempt(p, r)
    \/ WriteLock(p)
    \/ SetNode(p)
    \/ SetCurrentNode(p)

JobNext ==
    \E p \in Callers :
        \/ JobStart(p)
        \/ JobRequest(p)
        \/ \E ok \in BOOLEAN : JobFinish(p, ok)

JobSpec == JobInit /\ [][JobNext]_vars

\* what a call of request() that holds its permit does next; the send of an
\* attempt ends because the client has a timeout
Proceed(p) ==
    \/ ReadLock(p)
    \/ \E r \in ResponseKinds(index[p]) : Attempt(p, r)
    \/ WriteLock(p)
    \/ SetNode(p)
    \/ SetCurrentNode(p)

\* the jobs and their requests under a fair scheduler: a call that can go on
\* does go on; nothing is assumed about when a job starts, makes its next
\* request or ends
JobFairSpec ==
    /\ JobInit
    /\ [][JobNext]_vars
    /\ \A p \in Callers : WF_vars(Proceed(p))

\* one call of download_all_chapters, on a list of chapters that are told
\* apart by their ids, with or without a progress sender, whose receiver is
\* either draining the channel or gone
FetchInit ==
    /\ InitClient
    /\ NoBatch
    /\ NoBook
    /\ NoBucket
    /\ \E n \in 0..MaxChapters :
          /\ chapters = [k \in 1..n |-> k]
          /\ fetch = [k \in 1..n |-> "idle"]
    /\ progress_tx \in {"None", "open", "closed"}
    /\ fpc = "start"
    /\ chunks = <<>>
    /\ chunk_index = 0
    /\ completed = <<>>
    /\ chunk_results = <<>>
    /\ chunk_pos = 0
    /\ results = <<>>
    /\ progress = <<>>
    /\ launched = <<>>
    /\ request_failed = FALSE

FetchNext ==
    \/ Begin
    \/ Launch
    \/ \E g \in 1..MaxChapters : \E r \in ChapterResponses : Resolve(g, r)
    \/ Joined
    \/ Collect
    \/ Finish

FetchSpec == FetchInit /\ [][FetchNext]_vars

\* the batch command on up to MaxJobs book ids with any --concurrent value
\* up to MaxRequested; download_book is taken by what it returns
BatchInit ==
    /\ InitClient
    /\ NoFetch
    /\ concurrent \in 0..MaxRequested
    /\ \E n \in 0..MaxJobs : book_ids = SubSeq(BookPool, 1, n)
    /\ bpc = "cli"
    /\ NoBook
    /\ NoBucket
    /\ max_concurrent = 0
    /\ job_semaphore = SemNew(0)
    /\ job = <<>>
    /\ job_result = <<>>
    /\ batch_results = <<>>
    /\ overtook = FALSE

BatchNext ==
    \/ CmdBatch
    \/ RunStart
    \/ \E i \in 1..MaxJobs : \E r \in BookOutcomes : BookDone(i, r)
    \/ RunReturn

BatchSpec == BatchInit /\ [][BatchNext]_vars

\* the batch command under a fair scheduler, every download_book returning
\* in the end: a step that can be taken is taken
BatchFairSpec ==
    /\ BatchInit
    /\ [][BatchNext]_vars
    /\ WF_vars(CmdBatch)
    /\ WF_vars(RunStart)
    /\ \A i \in 1..MaxJobs : WF_vars(\E r \in BookOutcomes : BookDone(i, r))
    /\ WF_vars(RunReturn)

\* one call of download_book with any --start and --end up to MaxRange, the
\* gate with a permit to give
BookInit ==
    /\ InitClient
    /\ max_workers > 0
    /\ NoBatch
    /\ NoFetch
    /\ NoBucket
    /\ options \in [start_chapter : {NoneOpt} \cup {Some(k) : k \in 0..MaxRange},
                    end_chapter : {NoneOpt} \cup {Some(k) : k \in 0..MaxRange}]
    /\ bkpc = "detail"
    /\ listing = <<>>
    /\ exported = 0
    /\ exhausted = "none"
    /\ book_ret = NoRet

BookNext ==
    \/ \E r \in DetailResponses : GetBookDetail(r)
    \/ \E r \in DirectoryResponses : \E dir \in BOOLEAN : GetDirectory(r, dir)
    \/ \E r \in ChapterListResponses : \E dir \in BOOLEAN : GetChapterList(r, dir)
    \/ Begin
    \/ Launch
    \/ \E g \in 1..MaxChapters : \E r \in ChapterResponses : Resolve(g, r)
    \/ Joined
    \/ Collect
    \/ Finish
    \/ \E written \in BOOLEAN : Export(written)

BookSpec == BookInit /\ [][BookNext]_vars


\* a TokenBucket::new(rate, capacity) shared by the callers, who call
\* acquire() and try_acquire() on it while time passes
BucketInit ==
    /\ InitClient
    /\ Len(api_sources) = 1
    /\ max_workers = 1
    /\ NoBatch
    /\ NoFetch
    /\ NoBook
    /\ rate \in 0..MaxRate
    /\ capacity \in {c * TokenUnit : c \in 0..MaxCapacity}
    /\ tokens = MutexNew(capacity)
    /\ last_update = MutexNew(0)
    /\ now = 0
    /\ tpc = [p \in Callers |-> "idle"]
    /\ call = [p \in Callers |-> "none"]
    /\ local = [p \in Callers |-> NoLocal]
    /\ sleep = [p \in Callers |-> NoSleep]
    /\ sleeps = [p \in Callers |-> 0]
    /\ calls = 0
    /\ granted = 0
    /\ burst = TRUE

BucketNext ==
    \/ \E p \in Callers : Bucket(p)
    \/ Tick

BucketSpec == BucketInit /\ [][BucketNext]_vars

\* what a caller inside acquire() or try_acquire() does next
BucketStep(p) ==
    /\ \/ LockLastUpdate(p)
       \/ ReadClock(p)
       \/ Refill(p)
       \/ Check(p)
       \/ Wake(p)
    /\ UNCHANGED <<reqVars, max_workers, jobVars, fetchVars, batchVars, bookVars>>

\* a bucket that refills and can hold a token
BucketFairInit ==
    /\ BucketInit
    /\ rate > 0
    /\ capacity >= TokenUnit

\* such a bucket under a fair scheduler and a
\* clock that goes on up to MaxTime: a caller that can go on does go on;
\* nothing is assumed about when a call is made
BucketFairSpec ==
    /\ BucketFairInit
    /\ [][BucketNext]_vars
    /\ \A p \in Callers : WF_vars(BucketStep(p))
    /\ WF_vars(Tick)

(* ------------------------------ claims -------------------------------- *)
\* the indices 0, 1, ..., n-1 in list order
FirstIndices(n) == [k \in 1..n |-> k - 1]

\* a call has just returned from a 2xx answer whose body decoded
ReturnedFrom2xx ==
    /\ event.kind = "return"
    /\ event.hist.resp.kind = "http"
    /\ is_success(event.hist.resp.status)
    /\ event.hist.resp.dec

\* C1: when endpoints 0..K-1 failed a call, the last of them with a 5xx
\* answer, and endpoint K answered with a 2xx body that decodes, the step in
\* which the call returns gives it the value decoded from K's body and
\* leaves current_node_index at K.
C1_FailoverPromotes ==
    [][\A p \in Callers :
          (/\ event'.kind = "return"
           /\ event'.caller = p
           /\ ReturnedFrom2xx'
           /\ event'.hist.attempted = FirstIndices(event'.via + 1)
           /\ event'.via > 0 =>
                 last_error[p] = ApiNodeUnavailable(api_sources[event'.via]))
          => /\ event'.ret = Ok(BodyOf(event'.via))
             /\ current_node_index' = event'.via]_vars

\* endpoint 0 answered a call with 5xx and endpoint 1 with a 2xx body that
\* decoded; the call has promoted endpoint 1 and is about to return the
\* value of endpoint 1
C1_Witness ==
    \E p \in Callers :
        /\ pc[p] = "set_cur"
        /\ index[p] = 1
        /\ last_error[p] = ApiNodeUnavailable(api_sources[1])
        /\ data[p] = BodyOf(1)
        /\ hist[p].wrote = 1
        /\ current_node_index = 1

\* C2: every call attempts the endpoints in list order from index 0, whatever
\* the preferred index is: what a call has attempted so far is 0, 1, ..., i-1
\* and the endpoint it attempts next is i.
C2_ListOrder ==
    /\ \A p \in Callers :
          /\ hist[p].attempted = FirstIndices(Len(hist[p].attempted))
          /\ pc[p] = "send" => index[p] = Len(hist[p].attempted)
    /\ event.kind = "return" =>
          event.hist.attempted = FirstIndices(event.via + 1)

\* a call attempted endpoint 0 although an earlier call had promoted endpoint 1
C2_Witness ==
    \E p \in Callers :
        /\ pc[p] = "send"
        /\ hist[p].attempted = <<0>>
        /\ hist[p].idxSnap = 1

\* C3: a call whose attempts all fail returns an error, and the error is the
\* one of the last endpoint of the list, whatever was recorded before; if
\* that attempt timed out it is Timeout.  A success is only ever returned
\* from an attempt that did not fail.
C3_LastErrorWins ==
    event.kind = "return" =>
        LET last == Classify(event.hist.resp, api_sources[event.via + 1])
        IN  /\ event.ret.ok <=> last.act # "next"
            /\ ~event.ret.ok =>
                  /\ event.via = Len(api_sources) - 1
                  /\ event.ret.err = last.err
                  /\ event.hist.resp.kind = "timeout" => event.ret.err = Timeout

\* a call returned Timeout from the second endpoint after the first one had
\* failed too
C3_Witness ==
    /\ event.kind = "return"
    /\ ~event.ret.ok
    /\ event.ret.err = Timeout
    /\ event.via = 1
    /\ event.hist.attempted = <<0, 1>>

\* C4: a call that returns an error has written neither the preferred index
\* nor the cache, and both are as the call found them when it took its
\* snapshot.
C4_NoPromotionOnError ==
    (event.kind = "return" /\ ~event.ret.ok) =>
        /\ event.hist.wrote = 0
        /\ event.hist.wroteCache = 0
        /\ current_node_index = event.hist.idxSnap
        /\ current_node = event.hist.cacheSnap

\* both endpoints failed one call, the last with a 500 answer, while
\* endpoint 1 was preferred
C4_Witness ==
    /\ event.kind = "return"
    /\ ~event.ret.ok
    /\ event.hist.attempted = <<0, 1>>
    /\ event.hist.resp.status = 500
    /\ event.ret.err = ApiNodeUnavailable(api_sources[2])
    /\ current_node_index = 1

\* the callers between acquiring the permit and returning
InGate(p) == pc[p] \in {"read", "rw_wait", "send", "write", "set_node", "set_cur"}
Gated == {p \in Callers : InGate(p)}

\* C5: at most max_workers callers are inside the gated section, so at most
\* max_workers HTTP attempts are in flight.
C5_GateBound ==
    /\ Cardinality(Gated) <= max_workers
    /\ Cardinality({p \in Callers : pc[p] = "send"}) <= max_workers

\* the gate is full and a further caller waits for a permit
C5_Witness ==
    /\ max_workers > 0
    /\ Cardinality(Gated) = max_workers
    /\ \E p \in Callers : pc[p] = "sem_wait"

\* what a call has written, in every state and when it returns
C8_State ==
    /\ \A p \in Callers : hist[p].wrote <= 1 /\ hist[p].wroteCache <= 1
    /\ event.kind = "return" =>
          /\ event.hist.wrote <= 1
          /\ event.hist.wroteCache <= event.hist.wrote
          /\ event.hist.wrote = 1 =>
                /\ ReturnedFrom2xx
                /\ event.ret.ok
                /\ event.hist.differed
          /\ (event.ret.ok /\ ~event.hist.differed) =>
                event.hist.wrote = 0 /\ event.hist.wroteCache = 0

\* C8: a call writes the preferred index at most once, and only when it
\* returns a 2xx answer that decoded from an endpoint whose index differed
\* from the preferred one; a success from the preferred endpoint writes
\* nothing; no step changes the endpoint list or the gate size.
C8_WritesOnceOnPromotion ==
    /\ []C8_State
    /\ [][api_sources' = api_sources /\ max_workers' = max_workers]_vars

\* a call returned a success from endpoint 0 after promoting it, its one
\* write of the index
C8_Witness ==
    /\ ReturnedFrom2xx
    /\ event.hist.wrote = 1
    /\ event.hist.differed
    /\ event.via = 0

\* C6: a request holds exactly one request-gate permit from before its first
\* attempt until it returns, on every exit path, and a job holds one job-gate
\* permit until it ends, in success or in failure; so the permits out are
\* those of the requests and jobs in progress, and with none in progress
\* both gates are full.
Active == {p \in Callers : job[p] \in {"started", "running"}}

C6_PermitsReturned ==
    /\ \A p \in Callers :
          /\ hist[p].acquired = (IF InGate(p) THEN 1 ELSE 0)
          /\ InGate(p) => job[p] = "running"
    /\ semaphore.permits + Cardinality(Gated) = max_workers
    /\ job_semaphore.permits + Cardinality(Active) = max_concurrent
    /\ (Gated = {} /\ Active = {}) =>
          /\ semaphore.permits = max_workers
          /\ job_semaphore.permits = max_concurrent

\* every job has ended, one in success and one in failure, and both gates
\* are full again
C6_Witness ==
    /\ \A p \in Callers : job[p] \in {"succeeded", "failed"}
    /\ \E p \in Callers : job[p] = "succeeded"
    /\ \E p \in Callers : job[p] = "failed"
    /\ semaphore.permits = max_workers
    /\ job_semaphore.permits = max_concurrent

\* C7: with a non-empty endpoint list, 0 <= current_node_index < the length
\* of the list in every state; set_node out of range and switch_to_next_node
\* at the last index return false and change nothing, reset_node_index sets
\* 0, and a promotion stores an index of the snapshot.
Promoting(p) ==
    \/ pc[p] \in {"write", "set_node", "set_cur"}
    \/ \E k \in DOMAIN config_lock.waiters :
          config_lock.waiters[k] = [who |-> p, mode |-> "w"]

C7_IndexInRange ==
    /\ 0 <= current_node_index
    /\ current_node_index < Len(api_sources)
    /\ \A p \in Callers :
          Promoting(p) => nodes[p] = api_sources /\ index[p] < Len(nodes[p])
    /\ event.kind = "registry" =>
          /\ event.op = "set_node" =>
                IF event.arg < Len(api_sources)
                THEN event.ok /\ current_node_index = event.arg
                ELSE ~event.ok /\ current_node_index = event.before
          /\ event.op = "switch_to_next_node" =>
                IF event.before = Len(api_sources) - 1
                THEN ~event.ok /\ current_node_index = event.before
                ELSE event.ok /\ current_node_index = event.before + 1
          /\ event.op = "reset_node_index" => current_node_index = 0

\* switch_to_next_node was called at the last index of a list of two or more
\* endpoints and returned false
C7_Witness ==
    /\ event.kind = "registry"
    /\ event.op = "switch_to_next_node"
    /\ ~event.ok
    /\ Len(api_sources) >= 2
    /\ current_node_index = Len(api_sources) - 1

\* the chapters whose fetch succeeded, in the order of the input (the id of
\* a chapter is its position in `chapters`)
Succeeded == SelectSeq(chapters, LAMBDA c : fetch[c] = "ok")

\* C9: download_all_chapters returns Ok, never an error, and what it returns
\* is the input-order subsequence of the chapters whose fetch succeeded,
\* whatever failed and in whatever order the fetches of a chunk resolved;
\* while it runs, `results` is that subsequence of the chunks collected so far.
C9_SuccessesInInputOrder ==
    /\ event.kind = "fetched" => event.ret = Ok(Succeeded)
    /\ fpc = "done" => results = Succeeded /\ event.kind = "fetched"
    /\ fpc \in {"chunk", "join"} =>
          results = SelectSeq(SubSeq(chapters, 1, Min(Len(chapters),
                                                      chunk_index * max_workers)),
                              LAMBDA c : fetch[c] = "ok")

\* five chapters in chunks of two: the fetch at position 4 failed and the
\* call returned the other four in input order
C9_Witness ==
    /\ event.kind = "fetched"
    /\ Len(chapters) = 5
    /\ max_workers = 2
    /\ fetch = <<"ok", "ok", "ok", "err", "ok">>
    /\ event.ret.value = <<1, 2, 3, 5>>

Ceil(n, k) == (n + k - 1) \div k

\* C10: once cut, the chunks are ceil(n / max_workers) consecutive pieces of
\* `chapters`, each of max_workers chapters but for the last, which holds the
\* rest; they are launched one after the other in that order; and no fetch
\* has been started while a fetch of an earlier chunk is unresolved.
C10_WindowsSequential ==
    /\ fpc \in {"chunk", "join", "collect", "done"} =>
          /\ Len(chunks) = Ceil(Len(chapters), max_workers)
          /\ \A w \in 1..Len(chunks) :
                /\ Len(chunks[w]) = (IF w < Len(chunks) THEN max_workers
                                     ELSE Len(chapters) - (w - 1) * max_workers)
                /\ Len(chunks[w]) >= 1
                /\ chunks[w] = SubSeq(chapters, (w - 1) * max_workers + 1,
                                      (w - 1) * max_workers + Len(chunks[w]))
          /\ Len(launched) = chunk_index + (IF fpc \in {"join", "collect"} THEN 1 ELSE 0)
          /\ \A w \in 1..Len(launched) : launched[w] = Len(chunks[w])
          /\ fpc = "done" => Len(launched) = Len(chunks)
    /\ \A g \in DOMAIN fetch :
          fetch[g] # "idle" =>
              \A h \in DOMAIN fetch :
                  (h - 1) \div max_workers < (g - 1) \div max_workers
                      => fetch[h] \in {"ok", "err"}

\* five chapters with max_workers 2 went through chunks of 2, 2 and 1
C10_Witness ==
    /\ fpc = "done"
    /\ Len(chapters) = 5
    /\ launched = <<2, 2, 1>>

\* the positions whose fetch has been started and has not resolved
Running == {g \in DOMAIN fetch : fetch[g] = "running"}

\* C11: during one call of download_all_chapters, at most max_workers
\* chapter fetches are started and unresolved at any moment.
C11_FetchesBounded == Cardinality(Running) <= max_workers

\* a chunk of two fetches is in flight, with more chapters to come
C11_Witness ==
    /\ max_workers = 2
    /\ Cardinality(Running) = 2
    /\ \E g \in DOMAIN fetch : fetch[g] = "idle"


\* C12: run returns one result per submitted job, the i-th carrying the book
\* id of the i-th submitted job and being what that job's block built,
\* whatever the order in which the jobs ended.
C12_ResultsInSubmissionOrder ==
    bpc = "done" =>
        /\ event = [kind |-> "batch", ret |-> Ok(batch_results)]
        /\ Len(batch_results) = Len(book_ids)
        /\ \A i \in 1..Len(book_ids) :
              /\ batch_results[i].book_id = book_ids[i]
              /\ batch_results[i] = job_result[i]

\* three or more jobs, one of which ended before a job submitted earlier and
\* one of which failed; run has returned
C12_Witness ==
    /\ bpc = "done"
    /\ Len(book_ids) >= 3
    /\ overtook
    /\ \E i \in DOMAIN job : job[i] = "failed"
    /\ Len(batch_results) = Len(book_ids)


\* C13: whatever --concurrent asks for, the job gate is made min(asked, 5)
\* wide, so never more than that many jobs, and never more than 5, hold a
\* permit and are downloading; a value above 5 is clamped and the batch runs.
C13_ConcurrencyCapped ==
    bpc \in {"run", "join", "done"} =>
        /\ max_concurrent = Min(concurrent, SafetyCap)
        /\ Cardinality(Downloading) <= Min(concurrent, SafetyCap)
        /\ Cardinality(Downloading) <= SafetyCap
        /\ bpc # "run" => job_semaphore.permits + Cardinality(Downloading) = max_concurrent

\* more than 5 were asked for and more than 5 jobs submitted: 5 jobs are
\* downloading and a job waits at the gate
C13_Witness ==
    /\ bpc = "join"
    /\ concurrent > SafetyCap
    /\ Cardinality(Downloading) = SafetyCap
    /\ \E i \in DOMAIN job : job[i] = "job_wait"


\* the smaller of the gate's width and the number of jobs that have not ended
Capacity == Min(max_concurrent, Len(book_ids) - Cardinality(Ended))

\* C14: a job whose download_book fails ends with a result of its own that
\* says success = false and carries an error, while every job that has ended
\* has the result built from what its own download_book returned; failed
\* jobs take nothing from the others: as many jobs are downloading as the
\* gate and the jobs left allow; and run returns Ok whatever number failed.
C14_FailureIsolated ==
    bpc \in {"join", "done"} =>
        /\ \A i \in DOMAIN job :
              /\ job[i] = "failed" =>
                    /\ job_result[i].book_id = book_ids[i]
                    /\ ~job_result[i].success
                    /\ job_result[i].error # ""
                    /\ job_result[i].output_path = ""
              /\ job[i] = "succeeded" =>
                    job_result[i] = BatchResult(book_ids[i], [ok |-> TRUE, path |-> "path"])
              /\ job[i] \notin {"succeeded", "failed"} => job_result[i] = NoResult
        /\ Cardinality(Downloading) = Capacity
        /\ bpc = "done" =>
              /\ event.kind = "batch" /\ event.ret.ok
              /\ Ended = DOMAIN job
              /\ event.ret.value = job_result

\* the first job failed while others were waiting at the gate; all of them
\* have run since, some with success, and run has returned
C14_Witness ==
    /\ bpc = "done"
    /\ Len(book_ids) > max_concurrent
    /\ max_concurrent >= 1
    /\ job[1] = "failed"
    /\ \A i \in 2..Len(book_ids) : job[i] = "succeeded"
    /\ event.ret.ok


\* C15: under a fair scheduler and with every download_book returning, the
\* batch command comes to its end whatever --concurrent was given: every job
\* is started and run returns its results.
C15_BatchCompletes == <>(bpc \in {"empty", "done"})


\* C16 (as stated): a call of download_book in which a request has exhausted
\* all nodes, be it the metadata request, a chapter-list request or a
\* chapter-body request, has returned an error and has called no exporter.
C16_AbortsOnAnyExhaustion ==
    (bkpc = "done" /\ (exhausted # "none" \/ request_failed))
        => (~book_ret.ok /\ exported = 0)

\* C16 (amended): once the metadata request or a chapter-list request has
\* exhausted all nodes, download_book has returned that request's error
\* without fetching a chapter and without calling an exporter; a chapter-body
\* request that exhausts all nodes does not abort the call: it ends with that
\* chapter left out and the exporter called on the chapters that were fetched.
C16_AbortsOnListingExhaustion ==
    /\ exhausted # "none"
          => /\ bkpc = "done"
             /\ ~book_ret.ok
             /\ book_ret.err \in RequestErrors
             /\ fpc = "none"
             /\ exported = 0
    /\ (bkpc = "done" /\ request_failed)
          => /\ exhausted = "none"
             /\ exported = 1
             /\ Len(results) < Len(chapters)

C16_Witness ==
    /\ bkpc = "done"
    /\ exhausted = "book"
    /\ book_ret = Err(Timeout)
    /\ exported = 0


\* the event that the sink is owed for the chapter at position k, once that
\* chapter's fetch has resolved
ItemEvent(k) ==
    IF fetch[k] = "ok"
    THEN [type |-> "Chapter", total |-> Len(chapters), current |-> k,
          title |-> chapters[k]]
    ELSE [type |-> "Error", total |-> 0, current |-> 0, title |-> 0]

\* C17: a sender whose receiver is there gets Started{total = n} first and
\* once, before any fetch is issued; then one event per chapter in the order
\* of the positions, the k-th being Chapter{current = k, total = n, title} if
\* fetch k succeeded and Error if it failed, n of them by the time the call
\* returns; the events of a window are sent only when the whole window has
\* resolved, and all of them before the next window's fetches are issued.
C17_ProgressSequence ==
    progress_tx = "open" =>
        /\ fpc = "start" => (progress = <<>> /\ launched = <<>>)
        /\ fpc # "start" => (Len(progress) >= 1 /\ progress[1] = Started(Len(chapters)))
        /\ \A k \in 1..(Len(progress) - 1) :
              /\ k <= Len(chapters)
              /\ all_resolved(ChunkPositions((k - 1) \div max_workers))
              /\ progress[k + 1] = ItemEvent(k)
        /\ fpc = "join" => Len(progress) - 1 = chunk_index * max_workers
        /\ fpc = "done" => Len(progress) - 1 = Len(chapters)

C17_Witness ==
    /\ progress_tx = "open"
    /\ fpc = "done"
    /\ max_workers = 2
    /\ Len(chapters) = 3
    /\ completed = <<3>>
    /\ progress = <<Started(3), Chapter(1, 3, 1), Error, Chapter(3, 3, 3)>>


\* the chapters whose fetch failed
FailedFetches == {g \in DOMAIN fetch : fetch[g] = "err"}

\* the places in `progress` that hold an Error event
ErrorEvents == {j \in DOMAIN progress : progress[j] = Error}

\* C18: when download_book has returned Ok(output_path), the last event sent
\* is Completed{output_path}, and one Error event has been sent for every
\* chapter of the call whose fetch failed.
C18_FinishedIsSent ==
    (bkpc = "done" /\ book_ret.ok)
        => /\ progress # <<>>
           /\ progress[Len(progress)] = Completed(output_path)
           /\ Cardinality(ErrorEvents) = Cardinality(FailedFetches)


\* C19: over any interleaving of callers of acquire() and try_acquire(), every
\* step keeps the account of the bucket: what it adds to the tokens held and
\* to the tokens handed out is the refill for the time that last_update moves
\* forward by, cut off at the capacity and no more (no refill is applied
\* twice, none is lost below the capacity), a token handed out is taken from
\* the tokens held (none is spent twice), and the tokens never go below
\* zero; so the acquisitions of a time span never exceed the tokens held
\* at its start plus the refill of that span.
C19_RefillAndConsumeAtomic ==
    [][LET spent == TokenUnit * (granted' - granted)
           due == rate * (last_update'.value - last_update.value)
       IN  /\ last_update.value <= last_update'.value
           /\ last_update'.value <= now'
           /\ tokens'.value >= 0
           /\ tokens'.value + spent = Min(tokens.value + due, capacity)]_vars

\* two callers in acquire() and try_acquire() at once: one holds both locks
\* between its refill and its check while the other waits for `tokens`, and
\* tokens have been handed out and refilled before
C19_Witness ==
    /\ \E p, q \in Callers :
          /\ tpc[p] = "check"
          /\ tpc[q] = "lock_tokens"
          /\ call[p] # call[q]
    /\ granted >= 1
    /\ last_update.value >= 1
    /\ tokens.value < capacity


\* the capacity in whole tokens
WholeCapacity == capacity \div TokenUnit

\* C20: from a full bucket of a whole capacity of at least one token, with
\* calls of acquire() only, each first checked before any time has passed:
\* although no time has passed at most `capacity` calls have returned, and a
\* call that returned without sleeping is one of them; a call sleeps only
\* when `capacity` calls have returned, and it sleeps for the time that
\* refills one token; and when capacity + 1 calls are made, the one that
\* slept sleeps once, checks again not before that time has passed, and
\* returns with the token, the (capacity + 1)-th handed out.
C20_BurstThenWait ==
    (burst /\ capacity >= TokenUnit) =>
        /\ now = 0 => granted <= WholeCapacity
        /\ (event.kind = "acquire" /\ event.sleeps = 0) => granted <= WholeCapacity
        /\ \A p \in Callers :
              /\ sleeps[p] >= 1 => granted >= WholeCapacity
              /\ (tpc[p] = "sleeping" /\ sleeps[p] = 1)
                    => sleep[p].wait_time = TokenUnit
              /\ calls <= WholeCapacity + 1 => sleeps[p] <= 1
        /\ (event.kind = "acquire" /\ event.sleeps >= 1 /\ calls <= WholeCapacity + 1)
              => /\ event.sleeps = 1
                 /\ granted = WholeCapacity + 1
                 /\ rate * now >= TokenUnit

C20_Witness ==
    /\ burst
    /\ capacity = MaxCapacity * TokenUnit
    /\ calls = WholeCapacity + 1
    /\ granted = WholeCapacity + 1
    /\ event.kind = "acquire"
    /\ event.sleeps = 1
    /\ rate * now = TokenUnit


\* C21: a call of try_acquire() never sleeps for tokens; its refill step
\* sets the tokens to min(capacity, tokens + elapsed * rate), elapsed being
\* the time from last_update to the clock it read, and last_update to that
\* clock; its check then returns true with exactly one token taken if the
\* refilled tokens are at least one, and false with the refilled tokens left
\* as they are otherwise.
C21_TryAcquireNeverWaits ==
    [][\A p \in Callers :
          call[p] = "try_acquire" =>
              /\ tpc'[p] # "sleeping"
              /\ sleeps'[p] = 0
              /\ (tpc[p] = "refill" /\ tpc'[p] = "check") =>
                    /\ local[p].now <= now
                    /\ tokens'.value =
                          Min(capacity,
                              tokens.value + rate * (local[p].now - last_update.value))
                    /\ last_update'.value = local[p].now
              /\ (tpc[p] = "check" /\ tpc'[p] # "check") =>
                    /\ tpc'[p] = "idle"
                    /\ event'.kind = "try_acquire"
                    /\ event'.caller = p
                    /\ last_update'.value = last_update.value
                    /\ IF tokens.value >= TokenUnit
                       THEN event'.ret /\ tokens'.value = tokens.value - TokenUnit
                       ELSE ~event'.ret /\ tokens'.value = tokens.value]_vars

\* try_acquire() has returned false on a bucket that a refill had brought to
\* less than one token, and the part of a token is still there
C21_Witness ==
    /\ event.kind = "try_acquire"
    /\ ~event.ret
    /\ tokens.value > 0
    /\ tokens.value < TokenUnit
    /\ last_update.value >= 1
    /\ granted >= 1


\* the places in the registry lock's queue of tasks waiting for the write guard
WritersQueued == {k \in DOMAIN config_lock.waiters : config_lock.waiters[k].mode = "w"}

\* C22: a task waiting for a read guard on the registry, be it for the
\* snapshot of request() or for an endpoint path, waits behind a writer: the
\* write guard is held or a task waiting for it is ahead in the queue. Tasks
\* that only read never make a reader wait, whatever the interleaving and
\* also while requests are promoting.
C22_ReadersShare ==
    \A j \in DOMAIN config_lock.waiters :
        config_lock.waiters[j].mode = "r"
            => \/ config_lock.writer # NoCaller
               \/ \E k \in WritersQueued : k < j

\* two requests hold read guards at once after a promotion, the second having
\* got its guard while the first held one
C22_Witness ==
    /\ Cardinality(config_lock.readers) >= 2
    /\ current_node_index > 0
    /\ \A p \in Callers : pc[p] = "send"


\* the statuses 500..599
ServerError(st) == 500 <= st /\ st <= 599

\* C23: an answer with a status in 500..599 is classified as a failure that
\* records ApiNodeUnavailable(endpoint), whether its body would decode or
\* not; a call in its loop whose last record is ApiNodeUnavailable holds the
\* endpoint it attempted last and has moved on to the next; and a call that
\* returns from such an answer returns that error, from the last endpoint of
\* the list, never a success.
C23_ServerErrorSkipsDecoding ==
    /\ \A i \in 0..(Len(api_sources) - 1) : \A r \in Responses(i) :
          (r.kind = "http" /\ ServerError(r.status))
              => Classify(r, api_sources[i + 1])
                    = [act |-> "next", val |-> 0,
                       err |-> ApiNodeUnavailable(api_sources[i + 1])]
    /\ \A p \in Callers :
          (pc[p] = "send" /\ last_error[p].type = "ApiNodeUnavailable")
              => /\ index[p] >= 1
                 /\ last_error[p].node = nodes[p][index[p]]
                 /\ hist[p].attempted[Len(hist[p].attempted)] = index[p] - 1
    /\ (/\ event.kind = "return"
        /\ event.hist.resp.kind = "http"
        /\ ServerError(event.hist.resp.status))
          => /\ ~event.ret.ok
             /\ event.via = Len(api_sources) - 1
             /\ event.ret.err = ApiNodeUnavailable(api_sources[event.via + 1])

\* a call returned ApiNodeUnavailable of the second endpoint, whose answer
\* had status 500 and a body that decodes, after the first endpoint had
\* failed too
C23_Witness ==
    /\ event.kind = "return"
    /\ event.hist.attempted = <<0, 1>>
    /\ event.hist.resp = [kind |-> "http", status |-> 500, dec |-> TRUE,
                          body |-> BodyOf(1)]
    /\ event.ret = Err(ApiNodeUnavailable(api_sources[2]))


\* C24: the attempts of a call are the endpoints 0, 1, 2, ... of its snapshot,
\* each once and at most as many as there are endpoints; a call whose last
\* record is a decode error has moved on to the endpoint after the one whose
\* body did not decode; a call that got a value to return from an attempt
\* makes no attempt after it, up to its return; and a call returns from the
\* last attempt it made.
C24_EachEndpointOnce ==
    /\ \A p \in Callers :
          LET a == hist[p].attempted
          IN  /\ \A j \in DOMAIN a : a[j] = j - 1
              /\ Len(a) <= Len(api_sources)
              /\ pc[p] = "send" =>
                    /\ Len(a) = index[p]
                    /\ last_error[p].type = "JsonParse"
                          => last_error[p].node = nodes[p][index[p]]
              /\ (pc[p] \in {"write", "set_node", "set_cur"} \/ data[p] # 0)
                    => (a # <<>> /\ a[Len(a)] = index[p])
    /\ event.kind = "return" =>
          LET a == event.hist.attempted
          IN  /\ \A j \in DOMAIN a : a[j] = j - 1
              /\ Len(a) = event.via + 1
              /\ Len(a) <= Len(api_sources)

\* a call returned the second endpoint's value after the first endpoint had
\* answered 2xx with a body that did not decode: two attempts, one each
C24_Witness ==
    /\ event.kind = "return"
    /\ event.ret.ok
    /\ event.hist.attempted = <<0, 1>>
    /\ \E p \in Callers :
          /\ pc[p] = "send"
          /\ last_error[p] = JsonParse(api_sources[1])
          /\ hist[p].attempted = <<0>>


\* an answer of the kind C25 is about: a status that is neither 2xx nor 5xx
\* and a body that decodes
OtherStatusDecoded(r) ==
    /\ r.kind = "http"
    /\ ~is_success(r.status)
    /\ ~ServerError(r.status)
    /\ r.dec

\* C25: a call that returns from an answer whose status is neither 2xx nor
\* 5xx and whose body decodes returns the decoded value, and it leaves the
\* preferred index and the current-node cache as its snapshot found them, even
\* when the endpoint that answered is not the preferred one.
C25_OtherStatusReturnsDecoded ==
    (event.kind = "return" /\ OtherStatusDecoded(event.hist.resp)) =>
        /\ event.ret = Ok(json(event.hist.resp).val)
        /\ current_node_index = event.hist.idxSnap
        /\ current_node = event.hist.cacheSnap

\* the same for the statuses below 500 only: 404 with a body that decodes is
\* returned from whichever endpoint gave it, and nothing is promoted
C25_BelowServerErrors ==
    (/\ event.kind = "return"
     /\ OtherStatusDecoded(event.hist.resp)
     /\ event.hist.resp.status < 500) =>
        /\ event.ret = Ok(json(event.hist.resp).val)
        /\ current_node_index = event.hist.idxSnap
        /\ current_node = event.hist.cacheSnap

\* the second endpoint, which is not the preferred one, answered 404 with a
\* body that decodes: the call returned that value and promoted nothing
C25_Witness ==
    /\ event.kind = "return"
    /\ event.hist.attempted = <<0, 1>>
    /\ event.hist.resp = [kind |-> "http", status |-> 404, dec |-> TRUE,
                          body |-> BodyOf(1)]
    /\ event.ret = Ok(BodyOf(1))
    /\ current_node_index = 0
    /\ current_node = api_sources[1]


\* C26: the listing that get_chapters gives is the directory's list when the
\* directory answered with code 200 and a list; else the chapter list is
\* asked, and gives its volumes' chapters when it has volumes with a chapter
\* in them, else its flat list when it has one, else the error ChapterFetch; a
\* chapter list with another code than 200 is the error ChapterFetch; and a
\* directory request that failed is returned as its error, the chapter list
\* not being asked.
C26_ListingPrecedence ==
    /\ (event.kind = "book" /\ event.from = "directory") =>
          LET r == event.resp
          IN  IF ~r.ok
              THEN bkpc = "done" /\ book_ret = Err(r.err) /\ listing = <<>>
              ELSE IF r.code = 200 /\ r.lists.some
              THEN bkpc # "chapter_list" /\ listing = ChapterInfos(r.lists.v)
              ELSE bkpc = "chapter_list" /\ book_ret = NoRet /\ listing = <<>>
    /\ (event.kind = "book" /\ event.from = "chapter_list") =>
          LET r == event.resp
          IN  IF ~r.ok
              THEN bkpc = "done" /\ book_ret = Err(r.err) /\ listing = <<>>
              ELSE IF r.code # 200
              THEN bkpc = "done" /\ book_ret = Err(ChapterFetch) /\ listing = <<>>
              ELSE IF r.volumes.some /\ r.volumes.v > 0
              THEN listing = ChapterInfos(r.volumes.v)
              ELSE IF r.data.some
              THEN listing = ChapterInfos(r.data.v)
              ELSE bkpc = "done" /\ book_ret = Err(ChapterFetch) /\ listing = <<>>
    /\ bkpc = "chapter_list" => (exhausted = "none" /\ listing = <<>>)

\* the chapter list answered with two chapters in its volumes and three in
\* its flat list: the two are the listing, and their bodies are fetched
C26_Witness ==
    /\ event.kind = "book"
    /\ event.from = "chapter_list"
    /\ event.resp.volumes = Some(2)
    /\ event.resp.data = Some(3)
    /\ listing = ChapterInfos(2)
    /\ bkpc = "fetch"


\* the place of a position of download_book in the order of a job
Rank(at) ==
    CASE at = "detail" -> 1
      [] at = "directory" -> 2
      [] at = "chapter_list" -> 3
      [] at = "fetch" -> 4
      [] OTHER -> 5

\* the windows of chapter bodies are all through: download_all_chapters has
\* returned, past its last chunk, with no request left unsent or unanswered
WindowsDone ==
    /\ fpc = "done"
    /\ chunk_index = Len(chunks)
    /\ \A g \in DOMAIN fetch : fetch[g] \notin {"idle", "running"}

\* C27: a job goes through metadata, listing, windows of bodies and render in
\* that order and never back, and does nothing once it has returned; the
\* metadata answer leads on exactly when it is a response of code 200 with
\* data, and otherwise the job returns there and then, BookNotFound for a
\* response; the fetch of bodies is touched only in or into the fetch phase,
\* which has a listing, and a window is launched only in it; the render
\* happens once, after the last window, and ends the job.
C27_InOrder ==
    [][/\ bkpc \notin {"done", "panicked"}
       /\ Rank(bkpc') >= Rank(bkpc)
       /\ bkpc = "detail" =>
             LET r == event'.resp
             IN  /\ event'.from = "detail"
                 /\ IF r.ok /\ r.code = 200 /\ r.data
                    THEN bkpc' = "directory" /\ book_ret' = NoRet
                    ELSE /\ bkpc' = "done"
                         /\ book_ret' = Err(IF r.ok THEN BookNotFound ELSE r.err)
                 /\ UNCHANGED <<listing, fetchVars, exported>>
       /\ bkpc' \in {"detail", "directory", "chapter_list"} =>
             (fpc' = "none" /\ launched' = <<>> /\ listing' = <<>> /\ exported' = 0)
       /\ fetchVars' # fetchVars => (bkpc' = "fetch" /\ listing' # <<>>)
       /\ launched' # launched => (bkpc = "fetch" /\ listing # <<>>)
       /\ exported' # exported =>
             /\ exported = 0
             /\ exported' = 1
             /\ bkpc = "fetch"
             /\ WindowsDone
             /\ UNCHANGED fetchVars
             /\ bkpc' = "done"
       /\ exported' = 1 => bkpc' = "done"
      ]_vars

\* a book of three chapters was fetched in two windows and then rendered
C27_Witness ==
    /\ bkpc = "done"
    /\ book_ret = Ok(output_path)
    /\ exported = 1
    /\ Len(listing) = 3
    /\ Len(launched) = 2
    /\ WindowsDone


\* the calls that are inside their attempt loop
InLoop == {p \in Callers : pc[p] = "send"}

\* C28: a call inside its attempt loop holds a read guard of the registry,
\* nobody holds the write guard meanwhile, and the preferred index, the
\* current-node cache and the endpoint list are what the call's snapshot
\* found; a read guard is held only there, or by a lookup of an endpoint
\* path that was made to wait for it; a success from a 2xx answer
\* that promoted nothing came from the endpoint that was preferred at the
\* snapshot; and while a promotion holds the write guard no call is inside
\* its attempt loop.
C28_ReadGuardAcrossLoop ==
    /\ \A p \in Callers :
          /\ pc[p] = "send" =>
                /\ p \in config_lock.readers
                /\ config_lock.writer = NoCaller
                /\ current_node_index = hist[p].idxSnap
                /\ current_node = hist[p].cacheSnap
                /\ nodes[p] = api_sources
          /\ p \in config_lock.readers => pc[p] \in {"send", "lookup"}
          /\ pc[p] \in {"set_node", "set_cur"} =>
                /\ config_lock.writer = p
                /\ config_lock.readers = {}
                /\ InLoop = {}
    /\ config_lock.writer # NoCaller => InLoop = {}
    /\ (ReturnedFrom2xx /\ event.ret.ok /\ event.hist.wrote = 0) =>
          event.via = event.hist.idxSnap

\* a call is at its second attempt, still under the read guard it took for
\* its snapshot, while another call that succeeded at a non-preferred
\* endpoint waits for the write guard: the preferred index has not moved
C28_Witness ==
    \E p, q \in Callers :
        /\ pc[p] = "send"
        /\ index[p] = 1
        /\ pc[q] = "rw_wait"
        /\ data[q] # 0
        /\ index[q] = 1
        /\ config_lock.readers = {p}
        /\ current_node_index = 0
        /\ hist[p].idxSnap = 0


\* C29: with a request gate of at least one permit, every call of request()
\* that has begun returns in the end, whatever the other calls and the jobs
\* do meanwhile.
C29_EveryRequestReturns ==
    \A p \in Callers : (max_workers >= 1 /\ pc[p] # "idle") ~> (pc[p] = "idle")

\* two calls that both succeeded at a non-preferred endpoint: one holds the
\* write guard, the other waits for it, and each holds its gate permit and
\* its job's permit
C29_Witness ==
    \E p, q \in Callers :
        /\ p # q
        /\ pc[p] = "set_node"
        /\ pc[q] = "rw_wait"
        /\ data[q] # 0
        /\ {p, q} \subseteq Gated
        /\ job[p] = "running"
        /\ job[q] = "running"


\* C30: whenever nobody holds the write guard of the registry, the
\* current-node cache is the base URL of the preferred endpoint.
C30_CacheFollowsIndex ==
    config_lock.writer = NoCaller =>
        current_node = api_sources[current_node_index + 1]

\* two promotions of different endpoints have gone through, of endpoint 1
\* and then of endpoint 0: the second one's call has returned, the write guard
\* is free, the cache names endpoint 0 again, and the other caller is in its
\* attempt loop
C30_Witness ==
    /\ event.kind = "return"
    /\ event.hist.wrote = 1
    /\ event.via = 0
    /\ config_lock.writer = NoCaller
    /\ current_node_index = 0
    /\ current_node = api_sources[1]
    /\ \E q \in Callers : pc[q] = "send" /\ q # event.caller


\* the errors that a failed attempt records
SpecificErrors == {"Timeout", "Network", "ApiRequest", "ApiNodeUnavailable", "JsonParse"}

\* C31: the generic AllNodesUnavailable is what exhaustion gives exactly when
\* no error was recorded, which is when the loop made no attempt; the
\* endpoint list is never empty, a call that has made an attempt and is still
\* in its loop holds a specific error, and so every error that request()
\* returns is a specific one, recorded at the last endpoint of a snapshot
\* that was attempted in full, and never AllNodesUnavailable.
C31_GenericErrorUnreachable ==
    /\ Exhausted(NoError) = AllNodesUnavailable
    /\ \A t \in SpecificErrors :
          Exhausted([type |-> t, node |-> NoUrl, status |-> 0]) # AllNodesUnavailable
    /\ Len(api_sources) >= 1
    /\ \A p \in Callers :
          /\ pc[p] = "send" => nodes[p] # <<>>
          /\ pc[p] = "send" => (last_error[p] = NoError <=> hist[p].attempted = <<>>)
          /\ (pc[p] = "send" /\ last_error[p] # NoError) =>
                last_error[p].type \in SpecificErrors
    /\ (event.kind = "return" /\ ~event.ret.ok) =>
          /\ event.ret.err # AllNodesUnavailable
          /\ event.ret.err.type \in SpecificErrors
          /\ Len(event.hist.attempted) = Len(api_sources)

\* a call returned the Timeout of the second and last endpoint after the
\* first had failed too: the specific error, not the generic one
C31_Witness ==
    /\ event.kind = "return"
    /\ event.ret = Err(Timeout)
    /\ event.hist.attempted = <<0, 1>>
    /\ Len(api_sources) = 2


\* what the job's block matches on: the Result of download_book, its path
\* turned into a string
Outcome(ret) == [ok |-> ret.ok, path |-> IF ret.ok THEN "path" ELSE ""]

\* a BatchResult with the path and no error on success, and with the error
\* and no path on failure ("" stands for an absent field)
WellFormed(res) ==
    /\ res.success <=> (res.output_path # "" /\ res.error = "")
    /\ ~res.success <=> (res.output_path = "" /\ res.error # "")

\* every chapter body of the selection was asked for and none was obtained
AllFetchesFailed ==
    /\ fetch # <<>>
    /\ \A g \in DOMAIN fetch : fetch[g] = "err"
    /\ results = <<>>

\* C32: the BatchResult that a job's block builds from whatever download_book
\* returned is well-formed, and it is a success whenever the render
\* succeeded, also when every chapter fetch of the job had failed.
C32_BatchResultWellFormed ==
    bkpc = "done" =>
        LET res == BatchResult("b1", Outcome(book_ret))
        IN  /\ WellFormed(res)
            /\ res.success <=> book_ret.ok
            /\ (event.from = "export" /\ event.resp) => res.success
            /\ (AllFetchesFailed /\ event.from = "export" /\ event.resp) =>
                  /\ book_ret = Ok(output_path)
                  /\ res = [book_id |-> "b1", success |-> TRUE,
                            output_path |-> "path", error |-> ""]

\* the results that run() returned are well-formed, each of them
C32_RunResultsWellFormed ==
    /\ \A i \in DOMAIN batch_results : WellFormed(batch_results[i])
    /\ \A i \in DOMAIN job_result :
          i \in Ended => WellFormed(job_result[i])

\* a job whose metadata and listing came, whose two chapter fetches both
\* failed and whose render succeeded: download_book returned the path
C32_Witness ==
    /\ bkpc = "done"
    /\ Len(chapters) = 2
    /\ AllFetchesFailed
    /\ event.from = "export"
    /\ event.resp
    /\ book_ret = Ok(output_path)
    /\ options = [start_chapter |-> NoneOpt, end_chapter |-> NoneOpt]


\* the first and the last position, counted from 1, of the range that the
\* options ask for in a listing of `total` chapters
FirstPosition == Max(unwrap_or(options.start_chapter, 1), 1)
LastPosition(total) == Min(unwrap_or(options.end_chapter, total), total)

\* the range selection of a job that got its listing did what C33 says:
\* the Download error when the first position is beyond the last chapter, the
\* chapters from the first to the last position otherwise
RangeSelected ==
    /\ book_ret = Err(Download) => FirstPosition > Len(listing)
    /\ bkpc = "fetch" =>
          /\ FirstPosition <= Len(listing)
          /\ chapters = SubSeq(listing, FirstPosition, LastPosition(Len(listing)))

\* C33: for every start_chapter and end_chapter and every number of chapters
\* the range selection returns the Download error or selects the chapters
\* from position max(start, 1) to min(end, total), and it never aborts.
C33_RangeNeverAborts ==
    /\ RangeSelected
    /\ bkpc # "panicked"

\* the same without the ranges that end before they start: a range whose
\* last position is not more than one short of its first is selected, empty
\* or not, or refused with the Download error
C33_OrderedRangeSelected ==
    /\ RangeSelected
    /\ bkpc = "panicked" =>
          LastPosition(Len(listing)) < FirstPosition - 1

\* --start 3 --end 1 on a book of three chapters or more: the slice
\* chapters[2..1] was taken
C33_Witness ==
    /\ bkpc = "panicked"
    /\ options = [start_chapter |-> Some(3), end_chapter |-> Some(1)]
    /\ Len(listing) >= 3
    /\ book_ret = NoRet
    /\ exported = 0


\* C34: the tokens of a bucket are never less than zero nor more than its
\* capacity, whatever the callers of acquire() and try_acquire() do and
\* whatever time passes, for every rate and capacity from zero upwards; and
\* the tokens handed out never exceed the capacity it started with plus the
\* refill up to last_update.
C34_TokensWithinCapacity ==
    /\ 0 <= tokens.value
    /\ tokens.value <= capacity
    /\ tokens.value + TokenUnit * granted <= capacity + rate * last_update.value

\* a bucket of one token that has handed a token out and was then refilled by
\* more than it had handed out: it is full, the rest was cut off
C34_Witness ==
    /\ capacity = TokenUnit
    /\ granted = 1
    /\ tokens.value = capacity
    /\ rate * last_update.value > TokenUnit
    /\ \E p \in Callers : tpc[p] = "check" /\ call[p] = "try_acquire"


\* the callers that hold the mutex of the tokens, and of the timestamp
HoldsTokens == {p \in Callers : tpc[p] \in {"lock_last_update", "lock_wait", "read",
                                            "refill", "check"}}
HoldsLastUpdate == {p \in Callers : tpc[p] \in {"read", "refill", "check"}}

\* the locks of the bucket: each is held by one caller at most and is free
\* when nobody holds it, the timestamp is only held by the holder of the
\* tokens, who therefore never waits for it, and a caller that sleeps holds
\* neither
LocksInOrder ==
    /\ Cardinality(HoldsTokens) <= 1
    /\ tokens.sem.permits = 1 - Cardinality(HoldsTokens)
    /\ last_update.sem.permits = 1 - Cardinality(HoldsLastUpdate)
    /\ HoldsLastUpdate \subseteq HoldsTokens
    /\ last_update.sem.waiters = <<>>
    /\ \A p \in Callers : tpc[p] # "lock_wait"
    /\ Range(tokens.sem.waiters) = {p \in Callers : tpc[p] = "lock_tokens"}
    /\ (\A p \in Callers : tpc[p] \in {"idle", "sleeping"}) =>
          (tokens.sem = SemNew(1) /\ last_update.sem = SemNew(1))

\* the sleep of caller p ends after the clock of the model has stopped
SleepsPastHorizon(p) ==
    /\ now = MaxTime
    /\ tpc[p] = "sleeping"
    /\ rate * (now - sleep[p].at) < sleep[p].wait_time

\* C35: with a rate above zero and room for a token, the locks are taken in
\* one order and none is held by a sleeper, and every call of acquire()
\* returns in the end, unless it is left sleeping for longer than the clock
\* runs.
C35_AcquireReturns ==
    /\ []LocksInOrder
    /\ \A p \in Callers :
          (call[p] = "acquire") ~> (call[p] # "acquire" \/ SleepsPastHorizon(p))

\* an acquire() that found the bucket empty and slept has returned with a
\* token, and another caller holds the tokens now
C35_Witness ==
    /\ event.kind = "acquire"
    /\ event.sleeps >= 1
    /\ event.ret
    /\ \E q \in Callers : tpc[q] \in {"lock_last_update", "read", "refill", "check"}
                          /\ q # event.caller


\* the chapters among the first n whose fetch succeeded, in input order
RECURSIVE Fetched(_)
Fetched(n) ==
    IF n = 0 THEN <<>>
    ELSE IF fetch[n] = "ok" THEN Append(Fetched(n - 1), chapters[n])
    ELSE Fetched(n - 1)

\* the number of chapters whose result the loop has been through
Collected ==
    IF fpc = "collect" THEN chunk_index * max_workers + chunk_pos
    ELSE Min(chunk_index * max_workers, Len(chapters))

\* C36: what download_all_chapters has put out so far and the windows of
\* fetches it has issued are given by the chapters, the outcomes of their
\* fetches and max_workers alone, the same with no sender, with a sender whose
\* receiver drains the channel and with one whose receiver is gone: the
\* sender decides only whether the events are delivered.
C36_SinkIndependent ==
    /\ fpc \in {"chunk", "join", "collect", "done"} =>
          /\ chunks = Chunks(chapters, max_workers)
          /\ results = Fetched(Collected)
          /\ launched = [w \in 1..Len(launched) |-> Len(chunks[w])]
          /\ Len(launched) = chunk_index + (IF fpc \in {"join", "collect"} THEN 1 ELSE 0)
    /\ fpc = "done" =>
          /\ results = Fetched(Len(chapters))
          /\ Len(launched) = Len(chunks)
          /\ event.kind = "fetched" => event.ret = Ok(Fetched(Len(chapters)))
    /\ progress_tx # "open" => progress = <<>>

\* a run whose receiver is gone: three chapters in two windows, the second
\* chapter failed, the first and the third are returned and no event was
\* delivered
C36_Witness ==
    /\ fpc = "done"
    /\ progress_tx = "closed"
    /\ Len(chapters) = 3
    /\ Len(launched) = 2
    /\ fetch = <<"ok", "err", "ok">>
    /\ results = <<chapters[1], chapters[3]>>
    /\ progress = <<>>
    /\ event.kind = "fetched"

=============================================================================
